---- MODULE Spec2Model ----
(***************************************************************************)
(* Model of xsrc: the string-expression parser (xsrc/src/se_parser.rs) and *)
(* the scope-bound IR construction (xsrc/src/transformer.rs).              *)
(*                                                                         *)
(* A Rust String is a sequence of one-character strings; Rust positions    *)
(* are 0-based, so the character at position p of s is s[p + 1].           *)
(***************************************************************************)
EXTENDS Integers, Sequences, FiniteSets, TLC

(***************************************************************************)
(* Bounds                                                                  *)
(***************************************************************************)
\* longest exhaustively enumerated parser input
MaxLen == 4

\* characters of the exhaustively enumerated parser inputs
Alphabet == {"$", "{", "}", "<", ">", ":", "\\", ".", "a"}

(***************************************************************************)
(* se_parser.rs: data                                                      *)
(***************************************************************************)
SuperIdent == <<"!", "s", "u", "p", "e", "r">>

Super == <<"Super">>

Member(name) == <<"Member", name>>

Lit(text) == <<"Lit", text>>

Concat(l, r) == <<"Concat", l, r>>

Ref(path) == <<"Ref", path>>

Var(name) == <<"Var", name>>

None == <<"None">>

Some(v) == <<"Some", v>>

Param(name, typ) == [name |-> name, typ |-> typ]

EmptyExpr == <<"EmptyExpr">>

UnexpectedToken(ch, pos) == <<"UnexpectedToken", ch, pos>>

UnexpectedEOF == <<"UnexpectedEOF">>

DuplicateParam(name) == <<"DuplicateParam", name>>

\* enum ContextLookupError
NoSuchMember(member, context_path) == <<"NoSuchMember", member, context_path>>

EmptyKey(context_path) == <<"EmptyKey", context_path>>

LookupOnValue(member, value) == <<"LookupOnValue", member, value>>

\* enum ContextValue
ContextValueExpr(e) == <<"Expr", e>>

OkValue(val) == [kind |-> "ok", val |-> val]

\* Result<_, ParserError>
Err(e) == [kind |-> "err", err |-> e]

OkRef(expr, pos) == [kind |-> "ok", expr |-> expr, pos |-> pos]

OkParam(expr, param, pos) == [kind |-> "ok", expr |-> expr, param |-> param, pos |-> pos]

OkExpr(expr, params) == [kind |-> "ok", expr |-> expr, params |-> params]

Pending == [kind |-> "none"]

(***************************************************************************)
(* se_parser.rs: ident_to_member, parse_ref, parse_param, collect_exprs    *)
(***************************************************************************)
\* ident_to_member without the "!super" sentinel
ident_to_member_never_super(s) == Member(s)

ident_to_member(s) == IF s = SuperIdent THEN Super ELSE Member(s)

\* a loop of parse_ref that returns the position it was entered with
RECURSIVE parse_ref_loop_returns_entry(_, _, _, _, _)
parse_ref_loop_returns_entry(s, pos, inner, idents, curr_ident) ==
  IF pos + inner >= Len(s)
  THEN Err(UnexpectedEOF)
  ELSE LET ch == s[pos + inner + 1] IN
       CASE ch = "\\" -> Err(UnexpectedToken(ch, pos + inner))
         [] ch = "}" ->
              IF Len(curr_ident) = 0
              THEN Err(UnexpectedToken(ch, pos + inner))
              ELSE OkRef(Ref(Append(idents, ident_to_member(curr_ident))), pos)
         [] ch = "." ->
              IF Len(curr_ident) = 0
              THEN Err(UnexpectedToken(ch, pos + inner))
              ELSE parse_ref_loop_returns_entry(s, pos, inner + 1,
                                                Append(idents, ident_to_member(curr_ident)),
                                                <<>>)
         [] OTHER -> parse_ref_loop_returns_entry(s, pos, inner + 1, idents,
                                                  Append(curr_ident, ch))

\* the loop of parse_ref; inner is the index of the next item of
\* s.chars().skip(pos).enumerate()
RECURSIVE parse_ref_loop(_, _, _, _, _)
parse_ref_loop(s, pos, inner, idents, curr_ident) ==
  IF pos + inner >= Len(s)
  THEN Err(UnexpectedEOF)
  ELSE LET ch == s[pos + inner + 1] IN
       CASE ch = "\\" -> Err(UnexpectedToken(ch, pos + inner))
         [] ch = "}" ->
              IF Len(curr_ident) = 0
              THEN Err(UnexpectedToken(ch, pos + inner))
              ELSE OkRef(Ref(Append(idents, ident_to_member(curr_ident))),
                         pos + (inner + 1))
         [] ch = "." ->
              IF Len(curr_ident) = 0
              THEN Err(UnexpectedToken(ch, pos + inner))
              ELSE parse_ref_loop(s, pos, inner + 1,
                                  Append(idents, ident_to_member(curr_ident)), <<>>)
         [] OTHER -> parse_ref_loop(s, pos, inner + 1, idents, Append(curr_ident, ch))

parse_ref(s, pos) ==
  IF pos >= Len(s)
  THEN Err(UnexpectedEOF)
  ELSE IF s[pos + 1] # "{"
       THEN Err(UnexpectedToken(s[pos + 1], pos + 0))
       ELSE parse_ref_loop(s, pos, 1, <<>>, <<>>)

\* parse_param reporting the position relative to pos
RECURSIVE parse_param_loop_relative(_, _, _, _, _, _)
parse_param_loop_relative(s, pos, inner, var, typ, in_var) ==
  IF pos + inner >= Len(s)
  THEN Err(UnexpectedEOF)
  ELSE LET ch == s[pos + inner + 1] IN
       CASE ch = ">" ->
              IF Len(var) = 0
              THEN Err(UnexpectedToken(ch, inner))
              ELSE IF ~in_var /\ Len(typ) = 0
                   THEN Err(UnexpectedEOF)
                   ELSE OkParam(Var(var),
                                Param(var, IF Len(typ) = 0 THEN None ELSE Some(typ)),
                                pos + (inner + 1))
         [] ch = ":" ->
              IF Len(var) = 0
              THEN Err(UnexpectedToken(ch, inner))
              ELSE IF ~in_var
                   THEN Err(UnexpectedToken(ch, inner))
                   ELSE parse_param_loop_relative(s, pos, inner + 1, var, typ, FALSE)
         [] OTHER ->
              IF in_var
              THEN parse_param_loop_relative(s, pos, inner + 1, Append(var, ch), typ, in_var)
              ELSE parse_param_loop_relative(s, pos, inner + 1, var, Append(typ, ch), in_var)

\* parse_param without the check for a ':' that no type follows
RECURSIVE parse_param_loop_empty_type(_, _, _, _, _, _)
parse_param_loop_empty_type(s, pos, inner, var, typ, in_var) ==
  IF pos + inner >= Len(s)
  THEN Err(UnexpectedEOF)
  ELSE LET ch == s[pos + inner + 1] IN
       CASE ch = ">" ->
              IF Len(var) = 0
              THEN Err(UnexpectedToken(ch, pos + inner))
              ELSE OkParam(Var(var),
                           Param(var, IF Len(typ) = 0 THEN None ELSE Some(typ)),
                           pos + (inner + 1))
         [] ch = ":" ->
              IF Len(var) = 0
              THEN Err(UnexpectedToken(ch, pos + inner))
              ELSE IF ~in_var
                   THEN Err(UnexpectedToken(ch, pos + inner))
                   ELSE parse_param_loop_empty_type(s, pos, inner + 1, var, typ, FALSE)
         [] OTHER ->
              IF in_var
              THEN parse_param_loop_empty_type(s, pos, inner + 1, Append(var, ch), typ, in_var)
              ELSE parse_param_loop_empty_type(s, pos, inner + 1, var, Append(typ, ch), in_var)

\* the loop of parse_param followed by the check after it
\* a loop that takes a second ':' into the type
RECURSIVE parse_param_loop_colon_in_type(_, _, _, _, _, _)
parse_param_loop_colon_in_type(s, pos, inner, var, typ, in_var) ==
  IF pos + inner >= Len(s)
  THEN Err(UnexpectedEOF)
  ELSE LET ch == s[pos + inner + 1] IN
       CASE ch = ">" ->
              IF Len(var) = 0
              THEN Err(UnexpectedToken(ch, pos + inner))
              ELSE IF ~in_var /\ Len(typ) = 0
                   THEN Err(UnexpectedEOF)
                   ELSE OkParam(Var(var),
                                Param(var, IF Len(typ) = 0 THEN None ELSE Some(typ)),
                                pos + (inner + 1))
         [] ch = ":" /\ in_var ->
              IF Len(var) = 0
              THEN Err(UnexpectedToken(ch, pos + inner))
              ELSE parse_param_loop_colon_in_type(s, pos, inner + 1, var, typ, FALSE)
         [] OTHER ->
              IF in_var
              THEN parse_param_loop_colon_in_type(s, pos, inner + 1, Append(var, ch),
                                                  typ, in_var)
              ELSE parse_param_loop_colon_in_type(s, pos, inner + 1, var,
                                                  Append(typ, ch), in_var)

RECURSIVE parse_param_loop(_, _, _, _, _, _)
parse_param_loop(s, pos, inner, var, typ, in_var) ==
  IF pos + inner >= Len(s)
  THEN Err(UnexpectedEOF)
  ELSE LET ch == s[pos + inner + 1] IN
       CASE ch = ">" ->
              IF Len(var) = 0
              THEN Err(UnexpectedToken(ch, pos + inner))
              ELSE IF ~in_var /\ Len(typ) = 0
                   THEN Err(UnexpectedEOF)
                   ELSE OkParam(Var(var),
                                Param(var, IF Len(typ) = 0 THEN None ELSE Some(typ)),
                                pos + (inner + 1))
         [] ch = ":" ->
              IF Len(var) = 0
              THEN Err(UnexpectedToken(ch, pos + inner))
              ELSE IF ~in_var
                   THEN Err(UnexpectedToken(ch, pos + inner))
                   ELSE parse_param_loop(s, pos, inner + 1, var, typ, FALSE)
         [] OTHER ->
              IF in_var
              THEN parse_param_loop(s, pos, inner + 1, Append(var, ch), typ, in_var)
              ELSE parse_param_loop(s, pos, inner + 1, var, Append(typ, ch), in_var)

parse_param(s, pos) == parse_param_loop(s, pos, 0, <<>>, <<>>, TRUE)

\* collect_exprs with the operands of Concat exchanged
RECURSIVE collect_fold_swapped(_, _, _)
collect_fold_swapped(result, exprs, i) ==
  IF i > Len(exprs)
  THEN result
  ELSE collect_fold_swapped(Concat(exprs[i], result), exprs, i + 1)

RECURSIVE collect_fold(_, _, _)
collect_fold(result, exprs, i) ==
  IF i > Len(exprs)
  THEN result
  ELSE collect_fold(Concat(result, exprs[i]), exprs, i + 1)

collect_exprs(exprs) ==
  IF Len(exprs) = 0
  THEN Err(EmptyExpr)
  ELSE [kind |-> "ok", expr |-> collect_fold(exprs[1], exprs, 2)]

(***************************************************************************)
(* se_parser.rs: parse_expr.  A parser state holds the locals of the       *)
(* function: siter (the position of the next item of the iterator),        *)
(* curr_str, exprs, params, and the value returned once the loop is left.  *)
(***************************************************************************)
ParserStart ==
  [siter |-> 0, curr_str |-> <<>>, exprs |-> <<>>, params |-> <<>>, result |-> Pending]

\* the pending literal forgotten
Flush_dropped(st) == st.exprs

\* the pending literal pushed even when it is empty
Flush_always(st) == Append(st.exprs, Lit(st.curr_str))

\* `if curr_str.len() != 0 { exprs.push(Expr::Lit(curr_str)) }`: exprs after
\* the pending literal has been pushed
Flush(st) ==
  IF Len(st.curr_str) # 0 THEN Append(st.exprs, Lit(st.curr_str)) ELSE st.exprs

\* the arm '$' at position pos
step_ref(s, st, pos) ==
  LET r == parse_ref(s, pos + 1) IN
  IF r.kind = "err"
  THEN [st EXCEPT !.exprs = Flush(st), !.curr_str = <<>>, !.siter = pos + 1,
                  !.result = r]
  ELSE [st EXCEPT !.exprs = Append(Flush(st), r.expr),
                  !.curr_str = <<>>,
                  !.siter = r.pos]

\* the arm '<' at position pos
step_param(s, st, pos) ==
  LET r == parse_param(s, pos + 1) IN
  IF r.kind = "err"
  THEN [st EXCEPT !.exprs = Flush(st), !.curr_str = <<>>, !.siter = pos + 1,
                  !.result = r]
  ELSE [st EXCEPT !.exprs = Append(Flush(st), r.expr),
                  !.curr_str = <<>>,
                  !.params = Append(st.params, r.param),
                  !.siter = r.pos]

\* the backslash skipped and the character after it read as usual
step_escape_unescaped(s, st, pos) ==
  IF pos + 1 < Len(s)
  THEN [st EXCEPT !.siter = pos + 1]
  ELSE [st EXCEPT !.siter = pos + 1, !.result = Err(UnexpectedEOF)]

\* the arm '\\' at position pos
step_escape(s, st, pos) ==
  IF pos + 1 < Len(s)
  THEN [st EXCEPT !.curr_str = Append(st.curr_str, s[pos + 2]), !.siter = pos + 2]
  ELSE [st EXCEPT !.siter = pos + 1, !.result = Err(UnexpectedEOF)]

\* the arm `_` for the character ch at position pos
step_char(st, pos, ch) ==
  [st EXCEPT !.curr_str = Append(st.curr_str, ch), !.siter = pos + 1]

\* siter.next() is None: the last flush, collect_exprs and the returned value
step_eof(st) ==
  LET r == collect_exprs(Flush(st)) IN
  [st EXCEPT !.exprs = Flush(st),
             !.result = IF r.kind = "ok" THEN OkExpr(r.expr, st.params) ELSE r]

\* one iteration of the loop of parse_expr
parse_expr_step(s, st) ==
  IF st.siter >= Len(s)
  THEN step_eof(st)
  ELSE LET pos == st.siter
           ch == s[pos + 1]
       IN
       CASE ch = "$" -> step_ref(s, st, pos)
         [] ch = "<" -> step_param(s, st, pos)
         [] ch = "\\" -> step_escape(s, st, pos)
         [] OTHER -> step_char(st, pos, ch)

RECURSIVE parse_expr_run(_, _)
parse_expr_run(s, st) ==
  IF st.result.kind # "none" THEN st.result ELSE parse_expr_run(s, parse_expr_step(s, st))

parse_expr(s) == parse_expr_run(s, ParserStart)

(***************************************************************************)
(* linked_hash_map::LinkedHashMap as used by transformer.rs: a sequence of *)
(* <<key, value>> entries with distinct keys, iterated in that order.      *)
(***************************************************************************)
Keys(m) == [i \in 1..Len(m) |-> m[i][1]]

ContainsKey(m, k) == \E i \in 1..Len(m) : m[i][1] = k

Without(m, k) == SelectSeq(m, LAMBDA e : e[1] # k)

\* insert: a new key is appended; an existing key gets the new value and
\* moves to the back
Insert(m, k, v) == Append(Without(m, k), <<k, v>>)

\* extend / from_iter of (name, Param) pairs: insert one after the other
RECURSIVE Extend(_, _, _)
Extend(m, ps, i) ==
  IF i > Len(ps) THEN m ELSE Extend(Insert(m, ps[i].name, ps[i]), ps, i + 1)

(***************************************************************************)
(* transformer.rs                                                          *)
(***************************************************************************)
Methods == {"GET", "POST", "PUT", "DELETE", "HEAD", "OPTIONS", "PATCH"}

Panic == [kind |-> "panic"]

\* HttpMethod::from_str; "panic" stands for the panic! of the last arm
from_str(s) ==
  CASE s \in {"get", "GET"} -> "GET"
    [] s \in {"post", "POST"} -> "POST"
    [] s \in {"put", "PUT"} -> "PUT"
    [] s \in {"delete", "DELETE"} -> "DELETE"
    [] s \in {"head", "HEAD"} -> "HEAD"
    [] s \in {"options", "OPTIONS"} -> "OPTIONS"
    [] s \in {"patch", "PATCH"} -> "PATCH"
    [] OTHER -> "panic"

\* a context created without its parent link
Context_orphan(name, parent) ==
  [name |-> name, parent |-> 0, children |-> <<>>, scope |-> <<>>]

\* struct Context; parent is the index of the parent in the sequence of
\* allocated contexts (0 for None), a child is named by its index too
Context(name, parent) ==
  [name |-> name, parent |-> parent, children |-> <<>>, scope |-> <<>>]

\* the bound variables a caller of parse_expr receives: the parameters,
\* keyed by name, in a LinkedHashMap
BoundVars(ps) == Extend(<<>>, ps, 1)

\* the merge without the test of the value returned by insert
RECURSIVE Merge_unchecked(_, _, _)
Merge_unchecked(bounded_vars, kvs, i) ==
  IF i > Len(kvs)
  THEN [kind |-> "ok", bounded_vars |-> bounded_vars]
  ELSE Merge_unchecked(Insert(bounded_vars, kvs[i][1], Param(kvs[i][1], kvs[i][2])),
                       kvs, i + 1)

\* the for loops over schema.params and schema.data: bounded_vars after the
\* entries kvs[i..] have been merged, or the error of the first duplicate
RECURSIVE Merge(_, _, _)
Merge(bounded_vars, kvs, i) ==
  IF i > Len(kvs)
  THEN [kind |-> "ok", bounded_vars |-> bounded_vars]
  ELSE LET name == kvs[i][1]
           p == Param(name, kvs[i][2])
       IN
       IF ContainsKey(bounded_vars, name)
       THEN Err(DuplicateParam(name))
       ELSE Merge(Insert(bounded_vars, name, p), kvs, i + 1)

\* LinkedHashMap::from_iter over schema.data / schema.params
ParamMap(kvs) ==
  Extend(<<>>, [i \in 1..Len(kvs) |-> Param(kvs[i][1], kvs[i][2])], 1)

\* the APIData::API arm of transform_apiset
transform_api(name, schema, ctx, ctxs) ==
  LET parsed == parse_expr(schema.url) IN
  IF parsed.kind = "err"
  THEN parsed
  ELSE LET m1 == Merge(BoundVars(parsed.params), schema.params, 1) IN
       IF m1.kind = "err"
       THEN m1
       ELSE LET m2 == Merge(m1.bounded_vars, schema.data, 1) IN
            IF m2.kind = "err"
            THEN m2
            ELSE IF from_str(schema.method) = "panic"
                 THEN Panic
                 ELSE [kind |-> "ok",
                       ctxs |-> ctxs,
                       ir |-> [kind |-> "API",
                               name |-> name,
                               method |-> from_str(schema.method),
                               url |-> parsed.expr,
                               bounded_vars |-> m2.bounded_vars,
                               data |-> ParamMap(schema.data),
                               params |-> ParamMap(schema.params),
                               context |-> ctx]]

RECURSIVE transform_apiset(_, _, _, _)
RECURSIVE transform_children(_, _, _, _, _)

\* the loop `for (k, v) in apisets.iter()` of transform_apiset and of
\* transform: children holds the entries inserted so far, ctxs the contexts
\* allocated so far; the first failing child ends the loop
transform_children(apisets, i, parent_ctx, ctxs, children) ==
  IF i > Len(apisets)
  THEN [kind |-> "ok", children |-> children, ctxs |-> ctxs]
  ELSE LET k == apisets[i][1]
           child == transform_apiset(k, apisets[i][2], parent_ctx, ctxs)
       IN
       IF child.kind # "ok"
       THEN child
       ELSE transform_children(apisets, i + 1, parent_ctx, child.ctxs,
                               Insert(children, k, child.ir))

transform_apiset(name, apiset, root_ctx, ctxs0) ==
  LET ctx == Len(ctxs0) + 1
      ctxs == Append(ctxs0, Context(name, root_ctx))
  IN
  IF apiset.kind = "APISet"
  THEN LET cs == transform_children(apiset.apisets, 1, ctx, ctxs, <<>>) IN
       IF cs.kind # "ok"
       THEN cs
       ELSE LET parsed == parse_expr(apiset.url) IN
            IF parsed.kind = "err"
            THEN parsed
            ELSE [kind |-> "ok",
                  ctxs |-> cs.ctxs,
                  ir |-> [kind |-> "APISet",
                          name |-> name,
                          url |-> parsed.expr,
                          bounded_vars |-> BoundVars(parsed.params),
                          apisets |-> cs.children,
                          context |-> ctx]]
  ELSE transform_api(name, apiset, ctx, ctxs)

\* the match on source.url of transform
root_url(source) ==
  IF source.url[1] = "Some"
  THEN LET parsed == parse_expr(source.url[2]) IN
       IF parsed.kind = "err"
       THEN parsed
       ELSE [kind |-> "ok", url |-> parsed.expr,
             bounded_vars |-> BoundVars(parsed.params)]
  ELSE [kind |-> "ok", url |-> Var(<<"u", "r", "l">>),
        bounded_vars |->
          Insert(<<>>, <<"u", "r", "l">>,
                 Param(<<"u", "r", "l">>, Some(<<"s", "t", "r", "i", "n", "g">>)))]

transform(source) ==
  LET u == root_url(source) IN
  IF u.kind = "err"
  THEN u
  ELSE LET root_ctx == 1
           ctxs == <<Context(source.klsname, 0)>>
           cs == transform_children(source.apisets, 1, root_ctx, ctxs, <<>>)
       IN
       IF cs.kind # "ok"
       THEN cs
       ELSE [kind |-> "ok",
             ctxs |-> cs.ctxs,
             ir |-> [klsname |-> source.klsname,
                     url |-> u.url,
                     bounded_vars |-> u.bounded_vars,
                     apisets |-> cs.children,
                     context |-> root_ctx]]

(***************************************************************************)
(* Context::lookup.  The contexts of a tree are the entries of a sequence  *)
(* ctxs; a context is named by its index c, its parent and the values of   *)
(* its children map are indices too.  A HashMap is a sequence of           *)
(* <<key, value>> entries with distinct keys.                              *)
(***************************************************************************)
Get(m, k) == m[CHOOSE i \in 1..Len(m) : m[i][1] = k][2]

add_value(ctx, key, val) == [ctx EXCEPT !.scope = Insert(@, key, val)]

add_child(ctx, key, child) == [ctx EXCEPT !.children = Insert(@, key, child)]

\* a path that forgets the ancestors
path_flat(ctxs, c) == <<ctxs[c].name>>

RECURSIVE path(_, _)
path(ctxs, c) ==
  IF ctxs[c].parent # 0
  THEN Append(path(ctxs, ctxs[c].parent), ctxs[c].name)
  ELSE <<ctxs[c].name>>

lookup_local(ctxs, c, key) ==
  IF ContainsKey(ctxs[c].scope, key)
  THEN OkValue(Get(ctxs[c].scope, key))
  ELSE Err(NoSuchMember(key, path(ctxs, c)))

\* a lookup whose "!super" stays on the node
RECURSIVE lookup_super_stays(_, _, _)
lookup_super_stays(ctxs, c, key) ==
  IF Len(key) = 0
  THEN Err(EmptyKey(path(ctxs, c)))
  ELSE IF key[1] = "!super"
       THEN IF ctxs[c].parent = 0
            THEN Err(NoSuchMember("!super", path(ctxs, c)))
            ELSE lookup_super_stays(ctxs, c, Tail(key))
       ELSE IF lookup_local(ctxs, c, key[1]).kind = "ok"
            THEN IF Len(key) > 1
                 THEN Err(LookupOnValue(key[1], lookup_local(ctxs, c, key[1]).val))
                 ELSE lookup_local(ctxs, c, key[1])
            ELSE IF ContainsKey(ctxs[c].children, key[1])
                 THEN lookup_super_stays(ctxs, Get(ctxs[c].children, key[1]), Tail(key))
                 ELSE Err(NoSuchMember(key[1], path(ctxs, c)))

\* a lookup that consults the children before the local scope
RECURSIVE lookup_children_first(_, _, _)
lookup_children_first(ctxs, c, key) ==
  IF Len(key) = 0
  THEN Err(EmptyKey(path(ctxs, c)))
  ELSE IF key[1] = "!super"
       THEN IF ctxs[c].parent = 0
            THEN Err(NoSuchMember("!super", path(ctxs, c)))
            ELSE lookup_children_first(ctxs, ctxs[c].parent, Tail(key))
       ELSE IF ContainsKey(ctxs[c].children, key[1])
            THEN lookup_children_first(ctxs, Get(ctxs[c].children, key[1]), Tail(key))
            ELSE IF lookup_local(ctxs, c, key[1]).kind = "ok"
                 THEN IF Len(key) > 1
                      THEN Err(LookupOnValue(key[1], lookup_local(ctxs, c, key[1]).val))
                      ELSE lookup_local(ctxs, c, key[1])
                 ELSE Err(NoSuchMember(key[1], path(ctxs, c)))

RECURSIVE lookup(_, _, _)
lookup(ctxs, c, key) ==
  IF Len(key) = 0
  THEN Err(EmptyKey(path(ctxs, c)))
  ELSE IF key[1] = "!super"
       THEN IF ctxs[c].parent = 0
            THEN Err(NoSuchMember("!super", path(ctxs, c)))
            ELSE lookup(ctxs, ctxs[c].parent, Tail(key))
       ELSE IF lookup_local(ctxs, c, key[1]).kind = "ok"
            THEN IF Len(key) > 1
                 THEN Err(LookupOnValue(key[1], lookup_local(ctxs, c, key[1]).val))
                 ELSE lookup_local(ctxs, c, key[1])
            ELSE IF ContainsKey(ctxs[c].children, key[1])
                 THEN lookup(ctxs, Get(ctxs[c].children, key[1]), Tail(key))
                 ELSE Err(NoSuchMember(key[1], path(ctxs, c)))

(***************************************************************************)
(* The code model the rewriter builds (codegen::javascript), as far as     *)
(* rewriter/javascript.rs constructs it.  Identifiers and string literals  *)
(* are sequences of characters, as the texts of the parser are; the names  *)
(* of the nodes of a schema are strings.                                   *)
(***************************************************************************)
Ident(text) == <<"Ident", text>>

LiteralString(text) == <<"String", text>>

ExprLiteral(lit) == <<"Literal", lit>>

ExprVar(name) == <<"Var", name>>

ExprMember(base, member) == <<"Member", base, member>>

ArithOp(text) == <<"ArithOp", text>>

Arith(op, l, r) == <<"Arith", op, l, r>>

Object(entries) == <<"Object", entries>>

FuncCall(func, args) == <<"FuncCall", func, args>>

Instantiate(constructor, args) == <<"Instantiate", constructor, args>>

Assign(typ, assignee, expr) == [typ |-> typ, assignee |-> assignee, expr |-> expr]

StmtAssign(assign) == <<"Assign", assign>>

Return(expr) == <<"Return", expr>>

Constructor(ps, stmts) == [params |-> ps, stmts |-> stmts]

Getter(ident, stmts) == [ident |-> ident, stmts |-> stmts]

Method(ident, ps, stmts, is_async) ==
  [ident |-> ident, params |-> ps, stmts |-> stmts, is_async |-> is_async]

Class(ident, extends, constructor, getters, methods) ==
  [ident |-> ident, extends |-> extends, constructor |-> constructor,
   getters |-> getters, methods |-> methods]

StmtClass(kls) == <<"Class", kls>>

Export(stmt, is_default) == <<"Export", stmt, is_default>>

Import(def, imps, path_) == [def |-> def, imps |-> imps, path |-> path_]

StmtImport(import) == <<"Import", import>>

Code(stmts) == [stmts |-> stmts]

(***************************************************************************)
(* rewriter/javascript.rs                                                  *)
(***************************************************************************)
\* the string literals of the rewriter: "this", "_super", "url", "_url",
\* "axios", "method", "params", "data"
This == <<"t", "h", "i", "s">>

UnderscoreSuper == <<"_", "s", "u", "p", "e", "r">>

Url == <<"u", "r", "l">>

UnderscoreUrl == <<"_", "u", "r", "l">>

Axios == <<"a", "x", "i", "o", "s">>

MethodKey == <<"m", "e", "t", "h", "o", "d">>

ParamsKey == <<"p", "a", "r", "a", "m", "s">>

DataKey == <<"d", "a", "t", "a">>

\* a wrapper that names the private field of the member
gen_ref_member_private(expr, m) ==
  IF m = Super
  THEN ExprMember(expr, Ident(UnderscoreSuper))
  ELSE ExprMember(expr, Ident(<<"_">> \o m[2]))

\* the body of the loop of gen_ref: expr wrapped for the member m
gen_ref_member(expr, m) ==
  IF m = Super
  THEN ExprMember(expr, Ident(UnderscoreSuper))
  ELSE ExprMember(expr, Ident(m[2]))

RECURSIVE gen_ref_loop(_, _, _)
gen_ref_loop(expr, ms, i) ==
  IF i > Len(ms) THEN expr ELSE gen_ref_loop(gen_ref_member(expr, ms[i]), ms, i + 1)

gen_ref(ms) == gen_ref_loop(ExprVar(This), ms, 1)

RECURSIVE folder(_)
folder(expr) ==
  CASE expr[1] = "Lit" -> ExprLiteral(LiteralString(expr[2]))
    [] expr[1] = "Ref" -> gen_ref(expr[2])
    [] expr[1] = "Var" -> ExprVar(expr[2])
    [] expr[1] = "Concat" -> Arith(ArithOp(<<"+">>), folder(expr[2]), folder(expr[3]))

\* v is the expression of a ContextValue::Expr, as the IR of the model
\* holds it
gen_context_value(v) == folder(v)

\* this.{member} = {expr};
AssignThis(member, expr) ==
  StmtAssign(Assign(None, ExprMember(ExprVar(This), Ident(member)), expr))

\* a root constructor that takes the bound variables but assigns nothing
root_constructor_empty(root) ==
  Some(Constructor([i \in 1..Len(root.bounded_vars) |->
                      Ident(root.bounded_vars[i][2].name)],
                   <<>>))

root_constructor(root) ==
  IF Len(root.bounded_vars) > 0
  THEN Some(Constructor(
         [i \in 1..Len(root.bounded_vars) |-> Ident(root.bounded_vars[i][2].name)],
         [i \in 1..Len(root.bounded_vars) |->
            AssignThis(<<"_">> \o root.bounded_vars[i][2].name,
                       ExprVar(root.bounded_vars[i][2].name))]))
  ELSE Some(Constructor(<<>>, <<AssignThis(UnderscoreUrl, gen_context_value(root.url))>>))

apiset_constructor(apiset) ==
  Some(Constructor(
    <<Ident(UnderscoreSuper)>>
      \o [i \in 1..Len(apiset.bounded_vars) |-> Ident(apiset.bounded_vars[i][2].name)],
    <<AssignThis(UnderscoreSuper, ExprVar(UnderscoreSuper)),
      AssignThis(UnderscoreUrl, gen_context_value(apiset.url))>>
      \o [i \in 1..Len(apiset.bounded_vars) |->
            AssignThis(apiset.bounded_vars[i][2].name,
                       ExprVar(apiset.bounded_vars[i][2].name))]))

\* the match on method of gen_axios_call
MethodLiteral(method) ==
  CASE method = "GET" -> <<"g", "e", "t">>
    [] method = "POST" -> <<"p", "o", "s", "t">>
    [] method = "PUT" -> <<"p", "u", "t">>
    [] method = "DELETE" -> <<"d", "e", "l", "e", "t", "e">>
    [] method = "HEAD" -> <<"h", "e", "a", "d">>
    [] method = "OPTIONS" -> <<"o", "p", "t", "i", "o", "n", "s">>
    [] method = "PATCH" -> <<"p", "a", "t", "c", "h">>

\* LinkedHashMap::from_iter of (k, Expr::Var(v.name)) over the entries of a
\* parameter map: the keys being distinct, one entry per entry, in order
VarsOf(m) == [i \in 1..Len(m) |-> <<m[i][1], ExprVar(m[i][2].name)>>]

\* a call whose config always has the entries params and data
gen_axios_call_always(url, method, ps, data) ==
  FuncCall(ExprVar(Axios),
           <<Object(<<<<MethodKey, ExprLiteral(LiteralString(MethodLiteral(method)))>>,
                      <<Url, gen_context_value(url)>>,
                      <<ParamsKey, Object(VarsOf(ps))>>,
                      <<DataKey, Object(VarsOf(data))>>>>)>>)

gen_axios_call(url, method, ps, data) ==
  LET url_expr == gen_context_value(url)
      config0 == <<<<MethodKey, ExprLiteral(LiteralString(MethodLiteral(method)))>>,
                   <<Url, url_expr>>>>
      config1 == IF Len(ps) > 0
                 THEN Insert(config0, ParamsKey, Object(VarsOf(ps)))
                 ELSE config0
      axios_config == IF Len(data) > 0
                      THEN Insert(config1, DataKey, Object(VarsOf(data)))
                      ELSE config1
  IN
  FuncCall(ExprVar(Axios), <<Object(axios_config)>>)

\* kls after gen_api(api, kls)
gen_api(api, kls) ==
  LET stmts == <<Return(gen_axios_call(api.url, api.method, api.params, api.data))>>
      method == Method(Ident(api.name),
                       [i \in 1..Len(api.bounded_vars) |-> api.bounded_vars[i][2].name],
                       stmts, TRUE)
  IN
  [kls EXCEPT !.methods = Append(@, method)]

RECURSIVE gen_apiset(_, _)
RECURSIVE gen_children(_, _, _, _)

\* the loop `for (k, child) in &apisets` of gen_apiset and of gen_root: code
\* and kls after the children apisets[i..]
gen_children(apisets, i, code, kls) ==
  IF i > Len(apisets)
  THEN [code |-> code, kls |-> kls]
  ELSE LET k == apisets[i][1]
           child == apisets[i][2]
       IN
       IF child.kind = "API"
       THEN gen_children(apisets, i + 1, code, gen_api(child, kls))
       ELSE gen_children(
              apisets, i + 1, gen_apiset(child, code),
              [kls EXCEPT !.getters =
                 Append(@, Getter(Ident(k),
                                  <<Return(Instantiate(ExprVar(k),
                                                       <<ExprVar(This)>>))>>))])

\* the class of the group pushed before the classes of the groups nested
\* in it
gen_apiset_preorder(apiset, code) ==
  LET kls == Class(Ident(apiset.name), None, apiset_constructor(apiset), <<>>, <<>>)
      done == gen_children(apiset.apisets, 1, Code(<<>>), kls)
  IN
  Code(Append(code.stmts, StmtClass(done.kls)) \o done.code.stmts)

\* code after gen_apiset(apiset, code, parent_kls); parent_kls is not used
gen_apiset(apiset, code) ==
  LET kls == Class(Ident(apiset.name), None, apiset_constructor(apiset), <<>>, <<>>)
      done == gen_children(apiset.apisets, 1, code, kls)
  IN
  Code(Append(done.code.stmts, StmtClass(done.kls)))

\* code after gen_root(root, code)
gen_root(root, code) ==
  LET root_kls ==
        Class(Ident(root.klsname), None, root_constructor(root),
              <<Getter(Ident(Url),
                       <<Return(ExprMember(ExprVar(This), Ident(UnderscoreUrl)))>>)>>,
              <<>>)
      done == gen_children(root.apisets, 1, code, root_kls)
  IN
  Code(Append(done.code.stmts, Export(StmtClass(done.kls), TRUE)))

\* the declarations of a class in an order that puts the getters first
rendered_decls_getters_first(kls) ==
  (IF kls.constructor[1] = "Some" THEN <<<<"constructor", kls.constructor[2]>>>> ELSE <<>>)
    \o [i \in 1..Len(kls.getters) |-> <<"getter", kls.getters[i]>>]
    \o [i \in 1..Len(kls.methods) |-> <<"method", kls.methods[i]>>]

\* Class::gen: the vector rendered_decls, each rendered declaration standing
\* as the declaration it is the text of
rendered_decls(kls) ==
  (IF kls.constructor[1] = "Some" THEN <<<<"constructor", kls.constructor[2]>>>> ELSE <<>>)
    \o [i \in 1..Len(kls.methods) |-> <<"method", kls.methods[i]>>]
    \o [i \in 1..Len(kls.getters) |-> <<"getter", kls.getters[i]>>]

\* Code::gen, Stmt::gen: the statements in order, a class (exported or not)
\* rendered as its declarations, any other statement as itself
Code_gen(code) ==
  [i \in 1..Len(code.stmts) |->
     CASE code.stmts[i][1] = "Class" -> <<"class", rendered_decls(code.stmts[i][2])>>
       [] code.stmts[i][1] = "Export" ->
            <<"export", code.stmts[i][3], rendered_decls(code.stmts[i][2][2])>>
       [] OTHER -> code.stmts[i]]

\* the Code that gen renders
gen(root) ==
  gen_root(root, Code(<<StmtImport(Import(Some(Ident(Axios)), None, Axios))>>))

(***************************************************************************)
(* Inputs                                                                  *)
(***************************************************************************)
\* every string over Alphabet of length 0..MaxLen
ShortInputs == UNION {[1..n -> Alphabet] : n \in 0..MaxLen}

\* "abc${!super.def}<id:gg>" (test_parse_expr)
FixExpr ==
  <<"a", "b", "c", "$", "{", "!", "s", "u", "p", "e", "r", ".", "d", "e", "f", "}",
    "<", "i", "d", ":", "g", "g", ">">>

\* "abc${super.def}<:gg>" (test_parse_expr_no_var)
FixNoVar ==
  <<"a", "b", "c", "$", "{", "s", "u", "p", "e", "r", ".", "d", "e", "f", "}",
    "<", ":", "g", "g", ">">>

\* "{a.$b.c}" (test_parse_ref)
FixRef == <<"{", "a", ".", "$", "b", ".", "c", "}">>

\* "{hello..world}" (test_parse_ref_malformed2)
FixRefMalformed2 ==
  <<"{", "h", "e", "l", "l", "o", ".", ".", "w", "o", "r", "l", "d", "}">>

\* "hello:world>" (test_parse_param)
FixParam == <<"h", "e", "l", "l", "o", ":", "w", "o", "r", "l", "d", ">">>

\* "hello:>" (test_parse_param_colon_no_type)
FixParamNoType == <<"h", "e", "l", "l", "o", ":", ">">>

\* "${!super.url}/items", "<a><a>", "<a>x<b:t>y${!super}", "x\$<a:b:c>"
FixSuperUrl ==
  <<"$", "{", "!", "s", "u", "p", "e", "r", ".", "u", "r", "l", "}",
    "/", "i", "t", "e", "m", "s">>

FixDup == <<"<", "a", ">", "<", "a", ">">>

FixMixed ==
  <<"<", "a", ">", "x", "<", "b", ":", "t", ">", "y",
    "$", "{", "!", "s", "u", "p", "e", "r", "}">>

FixTypeColon == <<"x", "\\", "$", "<", "a", ":", "b", ":", "c", ">">>

\* "${!super._super.url}/<b>": a member named like the field of the parent
FixUnderscoreSuper ==
  <<"$", "{", "!", "s", "u", "p", "e", "r", ".", "_", "s", "u", "p", "e", "r", ".",
    "u", "r", "l", "}", "/", "<", "b", ">">>

Fixtures ==
  {FixExpr, FixNoVar, FixRef, FixRefMalformed2, FixParam, FixParamNoType,
   FixSuperUrl, FixDup, FixMixed, FixTypeColon, FixUnderscoreSuper}

Inputs == ShortInputs \cup Fixtures

(***************************************************************************)
(* Schemas (schema.rs: RootSchema, APISetSchema, APISchema).  A child map  *)
(* is a sequence of <<name, node>> entries with distinct names; $params    *)
(* and $data are sequences of <<name, type>> entries with distinct names.  *)
(***************************************************************************)
\* most entries of a $params or $data mapping
MaxKeys == 2

\* most children of the root
MaxChildren == 2

\* most children of a group
MaxGroupChildren == 2

SeqsUpTo(S, n) == UNION {[1..k -> S] : k \in 0..n}

Injective(f) == \A i, j \in DOMAIN f : f[i] = f[j] => i = j

ParamKeys == {<<"a">>, <<"b">>, <<"c">>}

TypOf(k) == IF k = <<"a">> THEN Some(<<"i", "n", "t">>) ELSE None

KeyMaps ==
  {[i \in DOMAIN ks |-> <<ks[i], TypOf(ks[i])>>] :
     ks \in {q \in SeqsUpTo(ParamKeys, MaxKeys) : Injective(q)}}

\* "${!super.url}"
UrlDefault == <<"$", "{", "!", "s", "u", "p", "e", "r", ".", "u", "r", "l", "}">>

\* "${!super.url}/<a>"
UrlSuperA == UrlDefault \o <<"/", "<", "a", ">">>

\* "<a>", "<a:t><b>", "x", "<a><a>", "<b><a><b>", "", "<:", "${}"
UrlA == <<"<", "a", ">">>

UrlAB == <<"<", "a", ":", "t", ">", "<", "b", ">">>

UrlLit == <<"x">>

UrlDup == <<"<", "a", ">", "<", "a", ">">>

UrlBAB == <<"<", "b", ">", "<", "a", ">", "<", "b", ">">>

UrlEmpty == <<>>

UrlBadParam == <<"<", ":">>

UrlBadRef == <<"$", "{", "}">>

EndpointUrls == {UrlA, UrlAB, UrlLit, UrlSuperA, UrlDup, UrlBAB, UrlEmpty, UrlBadParam}

EndpointMethods == {"GET", "post", "Get", "TRACE"}

APISchema(method, url, ps, data) ==
  [kind |-> "API", method |-> method, url |-> url, params |-> ps, data |-> data]

APISetSchema(url, apisets) == [kind |-> "APISet", url |-> url, apisets |-> apisets]

RootSchema(url, klsname, apisets) ==
  [url |-> url, klsname |-> klsname, apisets |-> apisets]

\* the names of the children of a node, by position
ChildNames == <<"users", "get", "post", "items">>

Named(nodes) == [i \in DOMAIN nodes |-> <<ChildNames[i], nodes[i]>>]

Endpoints ==
  {APISchema(m, u, ps, d) :
     m \in EndpointMethods, u \in EndpointUrls, ps \in KeyMaps, d \in KeyMaps}

\* the endpoints used inside trees of more than one node
TreeEndpoints ==
  {APISchema("GET", UrlSuperA, <<>>, <<>>),
   APISchema("GET", UrlA, <<<<<<"a">>, TypOf(<<"a">>)>>>>, <<>>),
   APISchema("POST", UrlLit, <<<<<<"b">>, None>>>>, <<<<<<"c">>, None>>>>),
   APISchema("GET", UrlBadParam, <<>>, <<>>)}

\* the endpoints used inside groups
GroupEndpoints ==
  {APISchema("GET", UrlSuperA, <<>>, <<>>),
   APISchema("GET", UrlBadParam, <<>>, <<>>)}

TreeGroups ==
  {APISetSchema(u, Named(cs)) :
     u \in {UrlDefault, UrlBadRef}, cs \in SeqsUpTo(GroupEndpoints, MaxGroupChildren)}

\* a group nested in a group
NestedGroups ==
  {APISetSchema(UrlDefault,
                Named(<<APISetSchema(u, Named(<<APISchema("GET", UrlSuperA, <<>>, <<>>)>>))>>)) :
     u \in {UrlA, UrlBadRef}}

RootUrls == {None, Some(UrlLit), Some(UrlAB), Some(UrlDup), Some(UrlBadRef)}

\* a root with one endpoint
EndpointSchemas ==
  {RootSchema(u, "XSClient", Named(<<e>>)) : u \in RootUrls, e \in Endpoints}

\* a root with a tree of endpoints and groups
TreeSchemas ==
  {RootSchema(Some(UrlLit), "RatinaClient", Named(cs)) :
     cs \in SeqsUpTo(TreeEndpoints \cup TreeGroups \cup NestedGroups, MaxChildren)}

\* "http://x/", "${!super.url}/items", "http://x/<id:int>",
\* "${!super.url}/<name:string>"
UrlHttpX == <<"h", "t", "t", "p", ":", "/", "/", "x", "/">>

UrlSuperItems ==
  UrlDefault \o <<"/", "i", "t", "e", "m", "s">>

UrlHttpXId ==
  <<"h", "t", "t", "p", ":", "/", "/", "x", "/", "<", "i", "d", ":", "i", "n", "t", ">">>

UrlSuperName ==
  UrlDefault \o <<"/", "<", "n", "a", "m", "e", ":", "s", "t", "r", "i", "n", "g", ">">>

\* a root with $url "http://x/" and the endpoint get: $method "GET",
\* $url "${!super.url}/items"
SingleEndpointSchema ==
  RootSchema(Some(UrlHttpX), "XSClient",
             <<<<"get", APISchema("GET", UrlSuperItems, <<>>, <<>>)>>>>)

\* a root with $url "http://x/<id:int>" and the endpoint get with $url
\* "${!super.url}/<name:string>"
ParameterizedSchema ==
  RootSchema(Some(UrlHttpXId), "XSClient",
             <<<<"get", APISchema("GET", UrlSuperName, <<>>, <<>>)>>>>)

ScenarioSchemas == {SingleEndpointSchema, ParameterizedSchema}

Schemas == EndpointSchemas \cup TreeSchemas \cup ScenarioSchemas

NoSchema == RootSchema(None, "", <<>>)

(***************************************************************************)
(* Context trees and lookup keys                                           *)
(***************************************************************************)
\* most segments of a lookup key
MaxPath == 3

\* tests::prepare_context: the root context is context 1
PreparedContext ==
  LET root_ctx ==
        add_value(add_value(Context("root", 0),
          "foo", ContextValueExpr(Lit(<<"h", "e", "l", "l", "o">>))),
          "bar", ContextValueExpr(Lit(<<"w", "o", "r", "l", "d">>)))
      child1_ctx ==
        add_value(add_value(Context("child1", 1),
          "foo_child1",
          ContextValueExpr(Lit(<<"h", "e", "l", "l", "o", "_", "c", "h", "i", "l", "d", "1">>))),
          "bar_child1",
          ContextValueExpr(Lit(<<"w", "o", "r", "l", "d", "_", "c", "h", "i", "l", "d", "1">>)))
      child2_ctx ==
        add_value(add_value(Context("child2", 1),
          "foo_child2",
          ContextValueExpr(Lit(<<"h", "e", "l", "l", "o", "_", "c", "h", "i", "l", "d", "2">>))),
          "bar_child2",
          ContextValueExpr(Lit(<<"w", "o", "r", "l", "d", "_", "c", "h", "i", "l", "d", "2">>)))
  IN
  <<add_child(add_child(root_ctx, "child1", 2), "child2", 3), child1_ctx, child2_ctx>>

\* the value a generated tree binds to key in the context of the given name
ValueAt(name, key) == ContextValueExpr(Lit(<<name, ".", key>>))

RECURSIVE add_values(_, _, _)
add_values(ctx, keys, i) ==
  IF i > Len(keys)
  THEN ctx
  ELSE add_values(add_value(ctx, keys[i], ValueAt(ctx.name, keys[i])), keys, i + 1)

Scopes1(a) == {<<>>, <<a>>}

Scopes2(a, b) == {<<>>, <<a>>, <<b>>, <<a, b>>}

\* root with the children child1 and child2, child1 with the child grand;
\* a scope may hold a key that is also the name of a child
GeneratedContexts ==
  {<<add_child(add_child(add_values(Context("root", 0), sr, 1), "child1", 2),
               "child2", 3),
     add_child(add_values(Context("child1", 1), s1, 1), "grand", 4),
     add_values(Context("child2", 1), s2, 1),
     add_values(Context("grand", 2), sg, 1)>> :
     sr \in Scopes2("foo", "child1"), s1 \in Scopes2("foo", "grand"),
     s2 \in Scopes1("foo"), sg \in Scopes1("foo")}

ContextTrees == {PreparedContext} \cup GeneratedContexts

Segments == {"!super", "foo", "child1", "child2", "grand", "missing"}

\* the keys of test_lookup_context, test_lookup_super_and_child
TestKeys == {<<"child1", "foo_child1">>, <<"!super", "child2", "bar_child2">>}

LookupKeys == SeqsUpTo(Segments, MaxPath) \cup TestKeys

NoContexts == <<>>

(***************************************************************************)
(* State                                                                   *)
(***************************************************************************)
VARIABLES
  mode,       \* which function is run: "expr", "ref", "param", "transform"
  input,      \* the &str argument s
  siter,      \* parse_expr: position of the next item of siter
  curr_str,   \* parse_expr: the literal being accumulated
  exprs,      \* parse_expr: the segments pushed so far
  params,     \* parse_expr: the parameters pushed so far
  result,     \* parse_expr: the returned value, Pending while in the loop
  subPos,     \* parse_ref / parse_param: the pos argument
  subResult,  \* parse_ref / parse_param: the returned value
  source,     \* transform: the RootSchema argument
  transformed, \* transform: the returned value, Pending before the call
  tree,       \* lookup: the contexts of the tree
  self,       \* lookup: the context the lookup is invoked on
  key,        \* lookup: the key argument
  found,      \* lookup: the returned value, Pending before the call
  lowered,    \* gen_context_value: the returned value, Pending before the call
  generated   \* gen: the Code and its rendering, Pending before the call

vars ==
  <<mode, input, siter, curr_str, exprs, params, result, subPos, subResult,
    source, transformed, tree, self, key, found, lowered, generated>>

lookupVars == <<tree, self, key, found>>

rewriterVars == <<lowered, generated>>

parserVars == <<siter, curr_str, exprs, params, result>>

\* the locals of parse_expr as a parser state
Locals ==
  [siter |-> siter, curr_str |-> curr_str, exprs |-> exprs, params |-> params,
   result |-> result]

Init ==
  /\ \/ /\ mode \in {"expr", "ref", "param"}
        /\ input \in Inputs
        /\ source = NoSchema
        /\ tree = NoContexts
     \/ /\ mode = "transform"
        /\ input = <<>>
        /\ source \in Schemas
        /\ tree = NoContexts
     \/ /\ mode = "lookup"
        /\ input = <<>>
        /\ source = NoSchema
        /\ tree \in ContextTrees
  /\ transformed = Pending
  /\ self = 0
  /\ key = <<>>
  /\ found = Pending
  /\ lowered = Pending
  /\ generated = Pending
  /\ siter = ParserStart.siter
  /\ curr_str = ParserStart.curr_str
  /\ exprs = ParserStart.exprs
  /\ params = ParserStart.params
  /\ result = ParserStart.result
  /\ subPos = 0
  /\ subResult = Pending

\* the assignment of the locals by one iteration of the loop of parse_expr
Iterate ==
  LET st == parse_expr_step(input, Locals) IN
  /\ siter' = st.siter
  /\ curr_str' = st.curr_str
  /\ exprs' = st.exprs
  /\ params' = st.params
  /\ result' = st.result
  /\ UNCHANGED <<mode, input, subPos, subResult, source, transformed, lookupVars, rewriterVars>>

InLoop == mode = "expr" /\ result.kind = "none"

\* siter.next() yields '$': flush the literal and dispatch into parse_ref
StepRef ==
  /\ InLoop /\ siter < Len(input) /\ input[siter + 1] = "$"
  /\ Iterate

\* siter.next() yields '<': flush the literal and dispatch into parse_param
StepParam ==
  /\ InLoop /\ siter < Len(input) /\ input[siter + 1] = "<"
  /\ Iterate

\* siter.next() yields '\\': take the next character verbatim
StepEscape ==
  /\ InLoop /\ siter < Len(input) /\ input[siter + 1] = "\\"
  /\ Iterate

\* siter.next() yields any other character
StepChar ==
  /\ InLoop /\ siter < Len(input) /\ input[siter + 1] \notin {"$", "<", "\\"}
  /\ Iterate

\* siter.next() yields None: flush, leave the loop, collect_exprs
StepEof ==
  /\ InLoop /\ siter >= Len(input)
  /\ Iterate

\* a direct call parse_ref(s, pos), as the unit tests make it
CallParseRef ==
  /\ mode = "ref" /\ subResult.kind = "none"
  /\ \E pos \in 0..Len(input) :
       /\ subPos' = pos
       /\ subResult' = parse_ref(input, pos)
  /\ UNCHANGED <<mode, input, parserVars, source, transformed, lookupVars, rewriterVars>>

\* a direct call parse_param(s, pos)
CallParseParam ==
  /\ mode = "param" /\ subResult.kind = "none"
  /\ \E pos \in 0..Len(input) :
       /\ subPos' = pos
       /\ subResult' = parse_param(input, pos)
  /\ UNCHANGED <<mode, input, parserVars, source, transformed, lookupVars, rewriterVars>>

\* the call transform(source)
Transform ==
  /\ mode = "transform" /\ transformed.kind = "none"
  /\ transformed' = transform(source)
  /\ UNCHANGED <<mode, input, parserVars, subPos, subResult, source, lookupVars, rewriterVars>>

\* a call ctx.lookup(key) on a context of the tree
Lookup ==
  /\ mode = "lookup" /\ found.kind = "none"
  /\ \E c \in 1..Len(tree), k \in LookupKeys :
       /\ self' = c
       /\ key' = k
       /\ found' = lookup(tree, c, k)
  /\ UNCHANGED <<mode, input, parserVars, subPos, subResult, source, transformed,
                 tree, rewriterVars>>

\* the call gen_context_value(&v) on the expression parse_expr returned
GenContextValue ==
  /\ mode = "expr" /\ result.kind = "ok" /\ lowered.kind = "none"
  /\ lowered' = [kind |-> "ok", expr |-> gen_context_value(result.expr)]
  /\ UNCHANGED <<mode, input, parserVars, subPos, subResult, source, transformed,
                 lookupVars, generated>>

\* the call gen(&root) on the root transform returned
Gen ==
  /\ mode = "transform" /\ transformed.kind = "ok" /\ generated.kind = "none"
  /\ generated' = [kind |-> "ok", code |-> gen(transformed.ir),
                   rendered |-> Code_gen(gen(transformed.ir))]
  /\ UNCHANGED <<mode, input, parserVars, subPos, subResult, source, transformed,
                 lookupVars, lowered>>

Next ==
  \/ StepRef
  \/ StepParam
  \/ StepEscape
  \/ StepChar
  \/ StepEof
  \/ CallParseRef
  \/ CallParseParam
  \/ Transform
  \/ Lookup
  \/ GenContextValue
  \/ Gen

Spec == Init /\ [][Next]_vars

(***************************************************************************)
(* Helpers of the properties                                               *)
(***************************************************************************)
Range(f) == {f[i] : i \in DOMAIN f}

Min(S) == CHOOSE x \in S : \A y \in S : x <= y

\* the k-th smallest element of a set of integers
Kth(S, k) == CHOOSE x \in S : Cardinality({y \in S : y < x}) = k - 1

NoNode == [kind |-> "none"]

\* the endpoint transform visits first: down the first children
RECURSIVE FirstEndpointOf(_)
FirstEndpointOf(apisets) ==
  IF Len(apisets) = 0
  THEN NoNode
  ELSE IF apisets[1][2].kind = "API"
       THEN apisets[1][2]
       ELSE FirstEndpointOf(apisets[1][2].apisets)

\* all endpoint nodes, and all group nodes, below a children mapping
RECURSIVE EndpointsBelow(_)
EndpointsBelow(apisets) ==
  UNION {IF apisets[i][2].kind = "API"
         THEN {apisets[i][2]}
         ELSE EndpointsBelow(apisets[i][2].apisets) : i \in 1..Len(apisets)}

RECURSIVE GroupsBelow(_)
GroupsBelow(apisets) ==
  UNION {IF apisets[i][2].kind = "API"
         THEN {}
         ELSE {apisets[i][2]} \cup GroupsBelow(apisets[i][2].apisets) :
           i \in 1..Len(apisets)}

\* the names of the Var nodes of an expression, left to right
RECURSIVE VarNames(_)
VarNames(e) ==
  CASE e[1] = "Var" -> <<e[2]>>
    [] e[1] = "Concat" -> VarNames(e[2]) \o VarNames(e[3])
    [] OTHER -> <<>>

Transformed == mode = "transform" /\ transformed.kind # "none"

Parsed == mode = "expr" /\ result.kind # "none"

(***************************************************************************)
(* C1                                                                      *)
(***************************************************************************)
\* the positions of keys($params) \o keys($data) whose key is already bound
DuplicateAt(url_keys, merged) ==
  {i \in 1..Len(merged) :
     \/ merged[i] \in Range(url_keys)
     \/ \E j \in 1..(i - 1) : merged[j] = merged[i]}

\* C1: for the endpoint that transform reaches first, with a root URL and an
\* endpoint URL that parse: if a key of $params, then of $data, taken in
\* insertion order, is already bound (by the URL or by an earlier key), the
\* result is the error DuplicateParam of the first such key; otherwise no
\* error comes from the endpoint and the keys of its bounded_vars are the
\* URL's, then those of $params, then those of $data.
C1_MergeOrDuplicate ==
  Transformed =>
    LET e == FirstEndpointOf(source.apisets) IN
    (root_url(source).kind = "ok" /\ e.kind = "API" /\ parse_expr(e.url).kind = "ok") =>
      LET url_keys == Keys(BoundVars(parse_expr(e.url).params))
          merged == Keys(e.params) \o Keys(e.data)
          dups == DuplicateAt(url_keys, merged)
      IN
      IF dups # {}
      THEN /\ transformed.kind = "err"
           /\ transformed.err = DuplicateParam(merged[Min(dups)])
      ELSE /\ transformed.kind = "ok" =>
                Keys(FirstEndpointOf(transformed.ir.apisets).bounded_vars)
                  = url_keys \o merged
           /\ (Len(source.apisets) = 1 /\ source.apisets[1][2].kind = "API") =>
                transformed.kind # "err"

\* a $data key that repeats a $params key of an endpoint with a URL parameter
\* was rejected
C1_Witness ==
  /\ Transformed
  /\ transformed.kind = "err"
  /\ transformed.err[1] = "DuplicateParam"
  /\ LET e == FirstEndpointOf(source.apisets) IN
     /\ e.kind = "API"
     /\ e.url = UrlA
     /\ Len(e.params) = 2
     /\ transformed.err[2] \in Range(Keys(e.params))
     /\ transformed.err[2] \in Range(Keys(e.data))
     /\ <<"a">> \notin Range(Keys(e.params))

(***************************************************************************)
(* C2                                                                      *)
(***************************************************************************)
\* C2: once parse_expr has returned for an input in which two parameters
\* were declared with the same name n, the returned value is the error
\* DuplicateParam(n).
C2_DuplicateParamRejected ==
  Parsed =>
    \A i, j \in 1..Len(params) :
      (i < j /\ params[i].name = params[j].name) =>
        /\ result.kind = "err"
        /\ result.err = DuplicateParam(params[i].name)

(***************************************************************************)
(* C3                                                                      *)
(***************************************************************************)
\* C3: in the IR of a successful transform, the keys of every endpoint's
\* bounded_vars are the names of the Var nodes of its URL in order of
\* appearance, then the keys of params, then the keys of data; no name
\* occurs twice, and the set of keys is the union of the three sets.
C3_BoundVarsSequence ==
  (Transformed /\ transformed.kind = "ok") =>
    \A e \in EndpointsBelow(transformed.ir.apisets) :
      LET ks == Keys(e.bounded_vars)
          expected == VarNames(e.url) \o Keys(e.params) \o Keys(e.data)
      IN
      /\ ks = expected
      /\ Injective(expected)
      /\ Range(ks) = Range(VarNames(e.url)) \cup Range(Keys(e.params))
                       \cup Range(Keys(e.data))

(***************************************************************************)
(* C4                                                                      *)
(***************************************************************************)
\* e is segs[1] for k = 1 and Concat(the fold of segs[1..k-1], segs[k]) else
RECURSIVE IsLeftFold(_, _, _)
IsLeftFold(e, segs, k) ==
  IF k = 1
  THEN e = segs[1]
  ELSE /\ e[1] = "Concat"
       /\ e[3] = segs[k]
       /\ IsLeftFold(e[2], segs, k - 1)

RECURSIVE RightNeverConcat(_)
RightNeverConcat(e) ==
  e[1] = "Concat" => (e[3][1] # "Concat" /\ RightNeverConcat(e[2]))

\* C4: a successful parse_expr returns the left-associative fold of the
\* segments it pushed, in order; no right operand of a Concat is a Concat.
C4_LeftAssociativeFold ==
  (Parsed /\ result.kind = "ok") =>
    /\ Len(exprs) >= 1
    /\ IsLeftFold(result.expr, exprs, Len(exprs))
    /\ RightNeverConcat(result.expr)

\* a parse of three or more segments of different kinds has returned
C4_Witness ==
  /\ Parsed
  /\ result.kind = "ok"
  /\ Len(exprs) >= 3
  /\ exprs[1][1] = "Lit"
  /\ exprs[2][1] = "Ref"
  /\ exprs[3][1] = "Var"

(***************************************************************************)
(* C5                                                                      *)
(***************************************************************************)
\* C5: an UnexpectedToken(c, p) returned by parse_expr has input[p] = c, and
\* an iteration that dispatched into parse_ref or parse_param and got a
\* result leaves the iterator just after the first '}' (or '>') that
\* follows the '$' (or '<').
C5_AbsolutePositions ==
  [][mode = "expr" =>
       /\ (result'.kind = "err" /\ result'.err[1] = "UnexpectedToken") =>
            /\ result'.err[3] < Len(input)
            /\ input[result'.err[3] + 1] = result'.err[2]
       /\ (result.kind = "none" /\ result'.kind = "none" /\ siter < Len(input)
             /\ input[siter + 1] = "$") =>
            /\ input[siter'] = "}"
            /\ \A i \in (siter + 2)..(siter' - 1) : input[i] # "}"
       /\ (result.kind = "none" /\ result'.kind = "none" /\ siter < Len(input)
             /\ input[siter + 1] = "<") =>
            /\ input[siter'] = ">"
            /\ \A i \in (siter + 2)..(siter' - 1) : input[i] # ">"]_vars

\* parse_param has reported a token after a literal and a reference were
\* consumed
C5_Witness ==
  /\ Parsed
  /\ result.kind = "err"
  /\ result.err[1] = "UnexpectedToken"
  /\ result.err[2] = ":"
  /\ result.err[3] = 16
  /\ Len(exprs) = 2

(***************************************************************************)
(* C6                                                                      *)
(***************************************************************************)
\* C6: parse_expr returns EmptyExpr exactly for the empty input; a
\* non-empty input returns at least one segment or one of the other errors.
C6_EmptyExprIffEmptyInput ==
  Parsed =>
    /\ (result.kind = "err" /\ result.err[1] = "EmptyExpr") <=> (Len(input) = 0)
    /\ result.kind = "ok" => Len(exprs) >= 1
    /\ result.kind = "err" =>
         result.err[1] \in {"EmptyExpr", "UnexpectedToken", "UnexpectedEOF",
                            "DuplicateParam"}

\* the empty input has been parsed
C6_Witness ==
  /\ Parsed
  /\ Len(input) = 0
  /\ result.kind = "err"
  /\ result.err[1] = "EmptyExpr"

(***************************************************************************)
(* C7                                                                      *)
(***************************************************************************)
\* C7: an iteration that reads a backslash in top-level text appends the
\* character after it to the literal, pushes no segment and no parameter
\* and goes on after that character; when the backslash is the last
\* character parse_expr returns UnexpectedEOF.
C7_Escape ==
  [][(mode = "expr" /\ result.kind = "none" /\ siter < Len(input)
        /\ input[siter + 1] = "\\") =>
       IF siter + 1 < Len(input)
       THEN /\ curr_str' = Append(curr_str, input[siter + 2])
            /\ exprs' = exprs
            /\ params' = params
            /\ siter' = siter + 2
            /\ result'.kind = "none"
       ELSE /\ result'.kind = "err"
            /\ result'.err[1] = "UnexpectedEOF"]_vars

\* an escaped '$' sits at the end of the literal, after another character
C7_Witness ==
  /\ mode = "expr"
  /\ result.kind = "none"
  /\ siter >= 3
  /\ input[siter - 1] = "\\"
  /\ input[siter] = "$"
  /\ Len(curr_str) >= 2
  /\ curr_str[Len(curr_str)] = "$"

(***************************************************************************)
(* C8                                                                      *)
(***************************************************************************)
\* positions (0-based) after the '{' at pos where the RefBody state ends:
\* a backslash, a '}', or a '.' that follows the '{' or another '.'
EmptyIdentAt(s, pos, i) == i = pos + 1 \/ s[i] = "."

RefStops(s, pos) ==
  {i \in (pos + 1)..(Len(s) - 1) :
     \/ s[i + 1] \in {"\\", "}"}
     \/ (s[i + 1] = "." /\ EmptyIdentAt(s, pos, i))}

\* the members of the body between the '{' at index open and the '}' at
\* index close (indices of the sequence s): the stretches between dots
RefMembers(s, open, close) ==
  LET seps == {open, close} \cup {j \in (open + 1)..(close - 1) : s[j] = "."}
      ident(k) == SubSeq(s, Kth(seps, k) + 1, Kth(seps, k + 1) - 1)
  IN [k \in 1..(Cardinality(seps) - 1) |->
        IF ident(k) = SuperIdent THEN Super ELSE Member(ident(k))]

ExpectedRef(s, pos) ==
  IF pos >= Len(s)
  THEN Err(UnexpectedEOF)
  ELSE IF s[pos + 1] # "{"
       THEN Err(UnexpectedToken(s[pos + 1], pos))
       ELSE IF RefStops(s, pos) = {}
            THEN Err(UnexpectedEOF)
            ELSE LET i == Min(RefStops(s, pos)) IN
                 IF s[i + 1] = "}" /\ ~EmptyIdentAt(s, pos, i)
                 THEN OkRef(Ref(RefMembers(s, pos + 1, i + 1)), i + 1)
                 ELSE Err(UnexpectedToken(s[i + 1], i))

\* C8: parse_ref(s, pos) returns what the RefBody state machine prescribes:
\* Ref of the dot-separated members ("!super" as Super) and the position
\* after '}'; UnexpectedToken of the '.' or '}' that ends an empty
\* identifier, of a backslash, or of a first character that is not '{';
\* UnexpectedEOF when the input ends before '}'.
C8_ParseRef ==
  (mode = "ref" /\ subResult.kind # "none") =>
    /\ subResult = ExpectedRef(input, subPos)
    /\ subResult.kind = "ok" => Len(subResult.expr[2]) >= 1

\* parse_ref has returned a path with a Super and a Member segment
C8_Witness ==
  /\ mode = "ref"
  /\ subResult.kind = "ok"
  /\ Len(subResult.expr[2]) = 2
  /\ subResult.expr[2][1] = Super
  /\ subResult.expr[2][2][1] = "Member"
  /\ subResult.pos = subPos + 12

(***************************************************************************)
(* C9                                                                      *)
(***************************************************************************)
\* the positions parse_param scans from pos: up to the first '>' or the end
Scanned(s, pos) ==
  LET gts == {i \in pos..(Len(s) - 1) : s[i + 1] = ">"} IN
  IF gts = {} THEN pos..(Len(s) - 1) ELSE pos..Min(gts)

\* the cases of C9: an empty name, or at most one ':' before the '>'
CoveredParam(s, pos) ==
  \/ pos >= Len(s)
  \/ s[pos + 1] \in {":", ">"}
  \/ Cardinality({i \in Scanned(s, pos) : s[i + 1] = ":"}) <= 1

ExpectedParam(s, pos) ==
  IF pos >= Len(s)
  THEN Err(UnexpectedEOF)
  ELSE IF s[pos + 1] \in {":", ">"}
       THEN Err(UnexpectedToken(s[pos + 1], pos))
       ELSE LET scanned == Scanned(s, pos)
                g == Min({i \in scanned : s[i + 1] = ">"})
                colons == {i \in scanned : s[i + 1] = ":"}
            IN
            IF \A i \in scanned : s[i + 1] # ">"
            THEN Err(UnexpectedEOF)
            ELSE IF colons = {}
                 THEN OkParam(Var(SubSeq(s, pos + 1, g)),
                              Param(SubSeq(s, pos + 1, g), None), g + 1)
                 ELSE LET c == Min(colons) IN
                      IF c + 1 = g
                      THEN Err(UnexpectedEOF)
                      ELSE OkParam(Var(SubSeq(s, pos + 1, c)),
                                   Param(SubSeq(s, pos + 1, c),
                                         Some(SubSeq(s, c + 2, g))),
                                   g + 1)

C10_ContextChildrenMirror ==
  (Transformed /\ transformed.kind = "ok") =>
    /\ Keys(transformed.ir.apisets)
         = Keys(transformed.ctxs[transformed.ir.context].children)
    /\ \A g \in GroupsBelow(transformed.ir.apisets) :
         Keys(g.apisets) = Keys(transformed.ctxs[g.context].children)

(***************************************************************************)
(* C11                                                                     *)
(***************************************************************************)
\* the number of parent links between context c and a context without parent
RECURSIVE StepsToRoot(_, _)
StepsToRoot(ctxs, c) ==
  IF ctxs[c].parent = 0 THEN 0 ELSE 1 + StepsToRoot(ctxs, ctxs[c].parent)

\* the context without parent that the parent links of c lead to
RECURSIVE TopOf(_, _)
TopOf(ctxs, c) == IF ctxs[c].parent = 0 THEN c ELSE TopOf(ctxs, ctxs[c].parent)

\* the contexts owned by the IR nodes below a children mapping, in preorder
RECURSIVE ContextsBelow(_)
ContextsBelow(apisets) ==
  IF Len(apisets) = 0
  THEN <<>>
  ELSE LET node == apisets[1][2] IN
       <<node.context>>
         \o (IF node.kind = "APISet" THEN ContextsBelow(node.apisets) ELSE <<>>)
         \o ContextsBelow(Tail(apisets))

\* every IR node of a children mapping, at the given depth below the root
\* and under the IR node owning parent_ctx, owns a context of its name, with
\* parent parent_ctx, depth parent links away from the root context
RECURSIVE ContextsMirror(_, _, _, _, _)
ContextsMirror(ctxs, root_ctx, apisets, parent_ctx, depth) ==
  \A i \in 1..Len(apisets) :
    LET node == apisets[i][2]
        c == node.context
    IN
    /\ c \in 1..Len(ctxs)
    /\ node.name = apisets[i][1]
    /\ ctxs[c].name = node.name
    /\ ctxs[c].parent = parent_ctx
    /\ StepsToRoot(ctxs, c) = depth
    /\ TopOf(ctxs, c) = root_ctx
    /\ node.kind = "APISet" =>
         ContextsMirror(ctxs, root_ctx, node.apisets, c, depth + 1)

\* C11: after a successful transform the context of the root IR has the
\* class name and no parent; every other IR node owns a context with the
\* node's name whose parent is the context of the parent IR node, and from
\* which the root context is reached by exactly depth(node) parent links;
\* the contexts of distinct IR nodes are distinct and no context is owned by
\* no IR node.
C11_ContextMirrorsIR ==
  (Transformed /\ transformed.kind = "ok") =>
    LET ir == transformed.ir
        ctxs == transformed.ctxs
        owned == <<ir.context>> \o ContextsBelow(ir.apisets)
    IN
    /\ ctxs[ir.context].name = ir.klsname
    /\ ctxs[ir.context].parent = 0
    /\ ContextsMirror(ctxs, ir.context, ir.apisets, ir.context, 1)
    /\ Injective(owned)
    /\ Range(owned) = 1..Len(ctxs)

\* a successful transform of a root with a group nested in a group: the
\* context of the innermost endpoint is three parent links below the root
C11_Witness ==
  /\ Transformed /\ transformed.kind = "ok"
  /\ \E c \in 1..Len(transformed.ctxs) : StepsToRoot(transformed.ctxs, c) = 3
  /\ \E i \in 1..Len(transformed.ir.apisets) :
       transformed.ir.apisets[i][2].kind = "API"

(***************************************************************************)
(* C12                                                                     *)
(***************************************************************************)
Looked == mode = "lookup" /\ found.kind # "none"

\* the context reached from c by the segments ks, "!super" leading to the
\* parent and any other segment to the child of that name, provided it is
\* not a key of the local scope; 0 if a segment leads nowhere
RECURSIVE Walk(_, _, _)
Walk(ctxs, c, ks) ==
  IF Len(ks) = 0
  THEN c
  ELSE LET next ==
             IF ks[1] = "!super"
             THEN ctxs[c].parent
             ELSE IF /\ ~ContainsKey(ctxs[c].scope, ks[1])
                     /\ ContainsKey(ctxs[c].children, ks[1])
                  THEN Get(ctxs[c].children, ks[1])
                  ELSE 0
       IN
       IF next = 0 THEN 0 ELSE Walk(ctxs, next, Tail(ks))

\* ks is some "!super" segments followed by segments that are not "!super"
SupersFirst(ks) ==
  \A i, j \in 1..Len(ks) : (i < j /\ ks[j] = "!super") => ks[i] = "!super"

\* C12: a lookup whose key is k >= 0 "!super" segments that the ancestors
\* of the context allow, then names of children, each a child (and no local
\* key) of the context reached so far, then a key of the local scope of the
\* context reached, returns the value that context binds to the key.
C12_LookupResolves ==
  (Looked /\ Len(key) > 0) =>
    LET front == SubSeq(key, 1, Len(key) - 1)
        last == key[Len(key)]
        reached == Walk(tree, self, front)
    IN
    (/\ SupersFirst(front)
     /\ last # "!super"
     /\ reached # 0
     /\ ContainsKey(tree[reached].scope, last))
      => found = OkValue(Get(tree[reached].scope, last))

\* test_lookup_super_and_child: one "!super", one child, one local key
C12_Witness ==
  /\ Looked
  /\ tree = PreparedContext
  /\ self = 2
  /\ key = <<"!super", "child2", "bar_child2">>
  /\ found = OkValue(ContextValueExpr(
                Lit(<<"w", "o", "r", "l", "d", "_", "c", "h", "i", "l", "d", "2">>)))

(***************************************************************************)
(* C13                                                                     *)
(***************************************************************************)
\* C13: a lookup fails with EmptyKey when the key is empty or is used up by
\* climbing and descending; with NoSuchMember("!super", [name]) when the
\* first segment is "!super" and the context has no parent; with
\* LookupOnValue of the key and its value when the first segment is a local
\* key and more segments follow, also when a child has the same name; with
\* NoSuchMember of the segment when the first segment is neither "!super",
\* a local key nor the name of a child.
C13_LookupFailures ==
  Looked =>
    /\ (SupersFirst(key) /\ Walk(tree, self, key) # 0) =>
         (found.kind = "err" /\ found.err[1] = "EmptyKey")
    /\ (Len(key) > 0 /\ key[1] = "!super" /\ tree[self].parent = 0) =>
         found = Err(NoSuchMember("!super", <<tree[self].name>>))
    /\ (Len(key) > 1 /\ key[1] # "!super"
          /\ ContainsKey(tree[self].scope, key[1])) =>
         found = Err(LookupOnValue(key[1], Get(tree[self].scope, key[1])))
    /\ (Len(key) > 0 /\ key[1] # "!super"
          /\ ~ContainsKey(tree[self].scope, key[1])
          /\ ~ContainsKey(tree[self].children, key[1])) =>
         (/\ found.kind = "err"
          /\ found.err[1] = "NoSuchMember"
          /\ found.err[2] = key[1])

\* the root binds the key "child1" and has the child "child1": the lookup
\* of <<"child1", "foo">> fails on the value
C13_Witness ==
  /\ Looked
  /\ self = 1
  /\ key = <<"child1", "foo">>
  /\ ContainsKey(tree[1].children, "child1")
  /\ ContainsKey(tree[Get(tree[1].children, "child1")].scope, "foo")
  /\ found = Err(LookupOnValue("child1", ValueAt("root", "child1")))

(***************************************************************************)
(* C14                                                                     *)
(***************************************************************************)
\* the context k parent links above c
RECURSIVE AncestorAt(_, _, _)
AncestorAt(ctxs, c, k) ==
  IF k = 0 THEN c ELSE AncestorAt(ctxs, ctxs[c].parent, k - 1)

\* the names of the contexts from the root down to c
NamesFromRoot(ctxs, c) ==
  LET d == StepsToRoot(ctxs, c) IN
  [i \in 1..(d + 1) |-> ctxs[AncestorAt(ctxs, c, d + 1 - i)].name]

\* the context_path field of a NoSuchMember or EmptyKey error
ContextPathOf(e) == IF e[1] = "EmptyKey" THEN e[2] ELSE e[3]

CarriesContextPath ==
  Looked /\ found.kind = "err" /\ found.err[1] \in {"NoSuchMember", "EmptyKey"}

\* C14 as stated: the context_path of a NoSuchMember or EmptyKey error
\* names the contexts from the root to the context the lookup was invoked
\* on.
C14_PathOfStartingContext ==
  CarriesContextPath => ContextPathOf(found.err) = NamesFromRoot(tree, self)

\* C14, amended: the context_path of a NoSuchMember or EmptyKey error names
\* the contexts from the root to the context at which the lookup failed,
\* the one reached from the starting context by the segments traversed
\* before the failure: for EmptyKey by the whole key, for NoSuchMember by
\* the segments before the reported member, which leads nowhere from there.
C14_PathOfFailingContext ==
  CarriesContextPath =>
    \E j \in 0..Len(key) :
      LET at == Walk(tree, self, SubSeq(key, 1, j)) IN
      /\ at # 0
      /\ ContextPathOf(found.err) = NamesFromRoot(tree, at)
      /\ found.err[1] = "EmptyKey" => j = Len(key)
      /\ found.err[1] = "NoSuchMember" =>
           /\ j < Len(key)
           /\ found.err[2] = key[j + 1]
           /\ Walk(tree, self, SubSeq(key, 1, j + 1)) = 0

\* test_lookup_context_no_such_member: the lookup begins at the root and
\* fails in child1
C14_Witness ==
  /\ Looked
  /\ tree = PreparedContext
  /\ self = 1
  /\ key = <<"child1", "missing">>
  /\ found = Err(NoSuchMember("missing", <<"root", "child1">>))

(***************************************************************************)
(* C15                                                                     *)
(***************************************************************************)
\* the upper-case spelling of a $method string of EndpointMethods
UpperCase(m) ==
  CASE m \in {"GET", "get", "Get"} -> "GET"
    [] m \in {"POST", "post", "Post"} -> "POST"
    [] m \in {"TRACE", "trace", "Trace"} -> "TRACE"

\* the only endpoint of a schema of EndpointSchemas
TheEndpoint == source.apisets[1][2]

\* C15: for a root with one endpoint whose $method is a known method in any
\* letter case, transform returns what it returns for the upper-case
\* spelling: when that is a root IR, the same root IR, whose endpoint
\* carries the method tag.
C15_MethodIgnoresCase ==
  (Transformed /\ source \in EndpointSchemas
     /\ UpperCase(TheEndpoint.method) \in Methods) =>
    LET upper == transform([source EXCEPT
                              !.apisets[1][2].method = UpperCase(@)])
    IN
    upper.kind = "ok" =>
      /\ transformed = upper
      /\ transformed.ir.apisets[1][2].method = UpperCase(TheEndpoint.method)

(***************************************************************************)
(* C16                                                                     *)
(***************************************************************************)
\* C16: for a root with one endpoint whose $method is not a known method in
\* any letter case, transform returns an error value: it neither panics nor
\* returns a root IR.
C16_UnknownMethodIsError ==
  (Transformed /\ source \in EndpointSchemas
     /\ UpperCase(TheEndpoint.method) \notin Methods) =>
    transformed.kind = "err"

(***************************************************************************)
(* C17                                                                     *)
(***************************************************************************)
Lowered == mode = "expr" /\ lowered.kind = "ok"

\* the members of a chain of member accesses, innermost first, and its base
RECURSIVE ChainMembers(_)
ChainMembers(j) ==
  IF j[1] = "Member" THEN Append(ChainMembers(j[2]), j[3]) ELSE <<>>

RECURSIVE ChainBase(_)
ChainBase(j) == IF j[1] = "Member" THEN ChainBase(j[2]) ELSE j

Count(seq, x) == Cardinality({i \in DOMAIN seq : seq[i] = x})

\* j is the structural image of e: literal for Lit, variable for Var, "+"
\* of the images for Concat, and for Ref a chain on `this` with one member
\* per segment, in order: `_super` for Super, the name itself for Member
RECURSIVE Structural(_, _)
Structural(e, j) ==
  CASE e[1] = "Lit" -> j = ExprLiteral(LiteralString(e[2]))
    [] e[1] = "Var" -> j = ExprVar(e[2])
    [] e[1] = "Concat" ->
         /\ j[1] = "Arith"
         /\ j[2] = ArithOp(<<"+">>)
         /\ Structural(e[2], j[3])
         /\ Structural(e[3], j[4])
    [] e[1] = "Ref" ->
         /\ ChainBase(j) = ExprVar(This)
         /\ ChainMembers(j) =
              [i \in 1..Len(e[2]) |->
                 IF e[2][i] = Super
                 THEN Ident(UnderscoreSuper)
                 ELSE Ident(e[2][i][2])]

\* the pairs <<path, chain>> of the Ref nodes of e and their images in j
RECURSIVE RefPairs(_, _)
RefPairs(e, j) ==
  CASE e[1] = "Ref" -> {<<e[2], j>>}
    [] e[1] = "Concat" -> RefPairs(e[2], j[3]) \cup RefPairs(e[3], j[4])
    [] OTHER -> {}

\* C17 as stated: the lowering is structural, and the chain of every Ref
\* has as many `_super` members as the path has Super segments.
C17_SuperMembersAreSupers ==
  Lowered =>
    /\ Structural(result.expr, lowered.expr)
    /\ \A pc \in RefPairs(result.expr, lowered.expr) :
         Count(ChainMembers(pc[2]), Ident(UnderscoreSuper)) = Count(pc[1], Super)

\* C17, amended: the lowering is structural; the chain of a Ref has as many
\* `_super` members as the path has Super segments and Member segments
\* named `_super` together, hence as many as Super segments when no Member
\* segment has that name.
C17_LoweringStructural ==
  Lowered =>
    /\ Structural(result.expr, lowered.expr)
    /\ \A pc \in RefPairs(result.expr, lowered.expr) :
         Count(ChainMembers(pc[2]), Ident(UnderscoreSuper))
           = Count(pc[1], Super) + Count(pc[1], Member(UnderscoreSuper))

\* the lowering of "${!super._super.url}/<b>": a Concat of a Concat, a
\* Ref with a Super and two Members, a Lit and a Var
C17_Witness ==
  /\ Lowered
  /\ input = FixUnderscoreSuper
  /\ result.expr = Concat(Concat(Ref(<<Super, Member(UnderscoreSuper), Member(Url)>>),
                                 Lit(<<"/">>)),
                          Var(<<"b">>))
  /\ lowered.expr[1] = "Arith"

(***************************************************************************)
(* C18                                                                     *)
(***************************************************************************)
Generated == mode = "transform" /\ generated.kind = "ok"

\* the class of the statement `export default class ...`, the last one
RootClass == generated.code.stmts[Len(generated.code.stmts)][2][2]

\* the entries of the object passed to axios by the only statement of a
\* method
AxiosConfig(method) == method.stmts[1][2][3][1][2]

\* this._super._url
SuperUrlField ==
  ExprMember(ExprMember(ExprVar(This), Ident(UnderscoreSuper)), Ident(UnderscoreUrl))

\* C18: for the endpoint get with $url "${!super.url}/items" the url entry
\* of the axios config is the "+" of the member access this._super._url
\* and the string literal "/items".
C18_SuperUrlIsPrivateField ==
  (Generated /\ source = SingleEndpointSchema) =>
    /\ Len(RootClass.methods) = 1
    /\ ContainsKey(AxiosConfig(RootClass.methods[1]), Url)
    /\ Get(AxiosConfig(RootClass.methods[1]), Url)
         = Arith(ArithOp(<<"+">>), SuperUrlField,
                 ExprLiteral(LiteralString(<<"/", "i", "t", "e", "m", "s">>)))

(***************************************************************************)
(* C19                                                                     *)
(***************************************************************************)
\* the body of the constructor of the root class assigns this.{member}
AssignsThis(stmt, member) ==
  /\ stmt[1] = "Assign"
  /\ stmt[2].typ = None
  /\ stmt[2].assignee = ExprMember(ExprVar(This), Ident(member))

\* C19: the root class has a constructor.  If the root IR has a bound
\* variable, its parameters are the names of the bound variables in
\* insertion order and its body is one assignment this._{name} = {name}
\* per variable, in that order; otherwise it has no parameter and the one
\* statement this._url = E(root.url).  For a root without $url it is
\* constructor(url) { this._url = url; }.
C19_RootConstructor ==
  Generated =>
    LET bv == transformed.ir.bounded_vars
        ctor == RootClass.constructor
    IN
    /\ ctor[1] = "Some"
    /\ Len(bv) > 0 =>
         /\ ctor[2].params = [i \in 1..Len(bv) |-> Ident(bv[i][2].name)]
         /\ Len(ctor[2].stmts) = Len(bv)
         /\ \A i \in 1..Len(bv) :
              /\ AssignsThis(ctor[2].stmts[i], <<"_">> \o bv[i][2].name)
              /\ ctor[2].stmts[i][2].expr = ExprVar(bv[i][2].name)
    /\ Len(bv) = 0 =>
         /\ ctor[2].params = <<>>
         /\ Len(ctor[2].stmts) = 1
         /\ AssignsThis(ctor[2].stmts[1], UnderscoreUrl)
         /\ Structural(transformed.ir.url, ctor[2].stmts[1][2].expr)
    /\ source.url = None =>
         ctor = Some(Constructor(<<Ident(Url)>>,
                                 <<AssignThis(UnderscoreUrl, ExprVar(Url))>>))

\* the root with $url "http://x/<id:int>": constructor(id) { this._id = id; }
C19_Witness ==
  /\ Generated
  /\ source = ParameterizedSchema
  /\ RootClass.constructor
       = Some(Constructor(<<Ident(<<"i", "d">>)>>,
                          <<AssignThis(<<"_", "i", "d">>, ExprVar(<<"i", "d">>))>>))

(***************************************************************************)
(* C20                                                                     *)
(***************************************************************************)
\* C20: for a root whose $url declares a parameter, the constructor of the
\* root class takes the parameter, assigns it to this._{name}, and assigns
\* the lowered URL expression to this._url, the field the getter url
\* returns.
C20_RootUrlFieldAssigned ==
  (Generated /\ source.url # None /\ Len(transformed.ir.bounded_vars) > 0) =>
    LET bv == transformed.ir.bounded_vars
        ctor == RootClass.constructor[2]
    IN
    /\ \A i \in 1..Len(bv) :
         /\ Ident(bv[i][2].name) \in Range(ctor.params)
         /\ \E k \in 1..Len(ctor.stmts) :
              /\ AssignsThis(ctor.stmts[k], <<"_">> \o bv[i][2].name)
              /\ ctor.stmts[k][2].expr = ExprVar(bv[i][2].name)
    /\ RootClass.getters[1].stmts
         = <<Return(ExprMember(ExprVar(This), Ident(UnderscoreUrl)))>>
    /\ \E k \in 1..Len(ctor.stmts) :
         /\ AssignsThis(ctor.stmts[k], UnderscoreUrl)
         /\ Structural(transformed.ir.url, ctor.stmts[k][2].expr)

(***************************************************************************)
(* C21                                                                     *)
(***************************************************************************)
\* the classes of the statements between the import and the export
GroupClasses ==
  [i \in 1..(Len(generated.code.stmts) - 2) |-> generated.code.stmts[i + 1][2]]

\* the names of the bound variables, in insertion order
BoundNames(bv) == [i \in 1..Len(bv) |-> bv[i][2].name]

\* C21: for every group of the IR a class named after the group is emitted
\* whose constructor takes `_super` and then the bound variables of the
\* group in insertion order, and whose body is this._super = _super, then
\* this._url = E(group.url), then this._{name} = {name} for each bound
\* variable in that order.
C21_GroupConstructor ==
  Generated =>
    \A g \in GroupsBelow(transformed.ir.apisets) :
      \E i \in 1..Len(GroupClasses) :
        LET kls == GroupClasses[i]
            names == BoundNames(g.bounded_vars)
        IN
        /\ kls.ident = Ident(g.name)
        /\ kls.constructor[1] = "Some"
        /\ kls.constructor[2].params
             = <<Ident(UnderscoreSuper)>> \o [k \in 1..Len(names) |-> Ident(names[k])]
        /\ Len(kls.constructor[2].stmts) = 2 + Len(names)
        /\ kls.constructor[2].stmts[1]
             = AssignThis(UnderscoreSuper, ExprVar(UnderscoreSuper))
        /\ AssignsThis(kls.constructor[2].stmts[2], UnderscoreUrl)
        /\ Structural(g.url, kls.constructor[2].stmts[2][2].expr)
        /\ \A k \in 1..Len(names) :
             kls.constructor[2].stmts[2 + k]
               = AssignThis(<<"_">> \o names[k], ExprVar(names[k]))

(***************************************************************************)
(* C22                                                                     *)
(***************************************************************************)
\* the groups of the IR below a children mapping: the groups nested in a
\* group before the group, the children in insertion order
RECURSIVE PostOrderGroups(_)
PostOrderGroups(apisets) ==
  IF Len(apisets) = 0
  THEN <<>>
  ELSE (IF apisets[1][2].kind = "APISet"
        THEN Append(PostOrderGroups(apisets[1][2].apisets), apisets[1][2])
        ELSE <<>>)
       \o PostOrderGroups(Tail(apisets))

\* the root and the groups of the IR, each with the class emitted for it
NodeClasses ==
  LET groups == PostOrderGroups(transformed.ir.apisets) IN
  {<<transformed.ir, RootClass>>}
    \cup {<<groups[i], GroupClasses[i]>> : i \in 1..Len(groups)}

\* the children of a node that are endpoints, and those that are groups
EndpointChildren(node) == SelectSeq(node.apisets, LAMBDA kv : kv[2].kind = "API")

GroupChildren(node) == SelectSeq(node.apisets, LAMBDA kv : kv[2].kind = "APISet")

\* the lower-case spelling of the method tags of the schemas
LowerCase(tag) ==
  CASE tag = "GET" -> <<"g", "e", "t">>
    [] tag = "POST" -> <<"p", "o", "s", "t">>

\* the object { k1: k1, k2: k2, ... } of the keys of a parameter map
SameNameObject(m) ==
  Object([i \in 1..Len(m) |-> <<m[i][1], ExprVar(m[i][1])>>])

\* method is the method of the endpoint api
IsMethodOf(method, api) ==
  /\ method.ident = Ident(api.name)
  /\ method.is_async = TRUE
  /\ method.params = BoundNames(api.bounded_vars)
  /\ Len(method.stmts) = 1
  /\ method.stmts[1][1] = "Return"
  /\ method.stmts[1][2][1] = "FuncCall"
  /\ method.stmts[1][2][2] = ExprVar(Axios)
  /\ Len(method.stmts[1][2][3]) = 1
  /\ method.stmts[1][2][3][1][1] = "Object"
  /\ LET config == AxiosConfig(method) IN
     /\ Keys(config)
          = <<MethodKey, Url>>
              \o (IF Len(api.params) > 0 THEN <<ParamsKey>> ELSE <<>>)
              \o (IF Len(api.data) > 0 THEN <<DataKey>> ELSE <<>>)
     /\ Get(config, MethodKey) = ExprLiteral(LiteralString(LowerCase(api.method)))
     /\ Structural(api.url, Get(config, Url))
     /\ Len(api.params) > 0 => Get(config, ParamsKey) = SameNameObject(api.params)
     /\ Len(api.data) > 0 => Get(config, DataKey) = SameNameObject(api.data)

\* C22: the methods of the class of the root and of every group are, one
\* per endpoint child, async, named after the endpoint, with the bound
\* variables of the endpoint as parameters in insertion order and the one
\* statement `return axios(config)`; the keys of config are method (the
\* lower-case literal of the tag), url (E(endpoint.url)), params if and
\* only if the endpoint has a query parameter, data if and only if it has a
\* body field, params and data mapping every declared key, in declared
\* order, to the variable of that name.
C22_EndpointMethod ==
  Generated =>
    \A nc \in NodeClasses :
      LET eps == EndpointChildren(nc[1]) IN
      /\ Len(nc[2].methods) = Len(eps)
      /\ \A i \in 1..Len(eps) : IsMethodOf(nc[2].methods[i], eps[i][2])

\* an endpoint with a URL parameter, a query parameter and a body field
C22_Witness ==
  /\ Generated
  /\ source \in EndpointSchemas
  /\ Len(RootClass.methods) = 1
  /\ Len(RootClass.methods[1].params) = 3
  /\ Keys(AxiosConfig(RootClass.methods[1])) = <<MethodKey, Url, ParamsKey, DataKey>>

(***************************************************************************)
(* C23                                                                     *)
(***************************************************************************)
\* the names K of the getters of a class that return `new K(this)`
Instantiated(kls) ==
  {kls.getters[i].stmts[1][2][2][2] :
     i \in {k \in 1..Len(kls.getters) : kls.getters[k].stmts[1][2][1] = "Instantiate"}}

\* the class of the statement at position i, through an export
ClassAt(i) ==
  IF generated.code.stmts[i][1] = "Export"
  THEN generated.code.stmts[i][2][2]
  ELSE generated.code.stmts[i][2]

\* C23: the statements are the import of axios, then one class per group
\* of the IR, named after it, in post-order, then `export default` of the
\* class of the root; and for every getter returning `new K(this)` a class
\* named K stands earlier in the list than the class of the getter.
C23_EmissionOrder ==
  Generated =>
    LET stmts == generated.code.stmts
        groups == PostOrderGroups(transformed.ir.apisets)
    IN
    /\ Len(stmts) = Len(groups) + 2
    /\ stmts[1] = StmtImport(Import(Some(Ident(Axios)), None, Axios))
    /\ \A i \in 1..Len(groups) :
         /\ stmts[i + 1][1] = "Class"
         /\ stmts[i + 1][2].ident = Ident(groups[i].name)
    /\ stmts[Len(stmts)][1] = "Export"
    /\ stmts[Len(stmts)][3] = TRUE
    /\ stmts[Len(stmts)][2][1] = "Class"
    /\ stmts[Len(stmts)][2][2].ident = Ident(transformed.ir.klsname)
    /\ \A j \in 2..Len(stmts) :
         \A K \in Instantiated(ClassAt(j)) :
           \E i \in 2..(j - 1) : ClassAt(i).ident = Ident(K)

\* a group nested in a group: the class of the inner group, then the class
\* of the outer group with its getter, then the root with its getter
C23_Witness ==
  /\ Generated
  /\ Len(generated.code.stmts) >= 4
  /\ \E j \in 1..Len(GroupClasses) : Instantiated(GroupClasses[j]) # {}
  /\ Cardinality(Instantiated(RootClass)) >= 1

(***************************************************************************)
(* C24                                                                     *)
(***************************************************************************)
\* the children mappings of the IR have, node by node, the keys of the
\* children mappings of the schema, in the same order
RECURSIVE SameChildren(_, _)
SameChildren(schema, ir) ==
  /\ Keys(ir) = Keys(schema)
  /\ \A i \in 1..Len(schema) :
       schema[i][2].kind = "APISet" =>
         /\ ir[i][2].kind = "APISet"
         /\ SameChildren(schema[i][2].apisets, ir[i][2].apisets)

\* the declarations of the rendered class of the statement at position i
DeclsAt(i) ==
  IF generated.rendered[i][1] = "export"
  THEN generated.rendered[i][3]
  ELSE generated.rendered[i][2]

\* the positions of the declarations of a kind in the rendering of a class
DeclPositions(decls, kind) == {k \in 1..Len(decls) : decls[k][1] = kind}

\* C24: the IR children mappings have the key sequences of the schema; in
\* the class of the root and of every group the methods are the endpoint
\* children and the getters of child groups the group children, both in
\* schema order, the latter after the getter url of the root; a rendered
\* class lists its constructor, then its methods, then its getters, each
\* in the order of the class.
C24_OrderPreserved ==
  Generated =>
    /\ SameChildren(source.apisets, transformed.ir.apisets)
    /\ \A nc \in NodeClasses :
         LET eps == EndpointChildren(nc[1])
             gps == GroupChildren(nc[1])
             own == IF nc[2] = RootClass THEN <<Ident(Url)>> ELSE <<>>
         IN
         /\ [i \in 1..Len(nc[2].methods) |-> nc[2].methods[i].ident]
              = [i \in 1..Len(eps) |-> Ident(eps[i][1])]
         /\ [i \in 1..Len(nc[2].getters) |-> nc[2].getters[i].ident]
              = own \o [i \in 1..Len(gps) |-> Ident(gps[i][1])]
    /\ \A j \in 2..Len(generated.code.stmts) :
         LET kls == ClassAt(j)
             decls == DeclsAt(j)
         IN
         /\ Len(decls) = 1 + Len(kls.methods) + Len(kls.getters)
         /\ decls[1] = <<"constructor", kls.constructor[2]>>
         /\ \A k \in 1..Len(kls.methods) : decls[1 + k] = <<"method", kls.methods[k]>>
         /\ \A k \in 1..Len(kls.getters) :
              decls[1 + Len(kls.methods) + k] = <<"getter", kls.getters[k]>>

\* a root whose first child is a group and whose second child is an
\* endpoint: the method is rendered before both getters
C24_Witness ==
  /\ Generated
  /\ Len(source.apisets) = 2
  /\ source.apisets[1][2].kind = "APISet"
  /\ source.apisets[2][2].kind = "API"
  /\ Len(RootClass.methods) = 1
  /\ Len(RootClass.getters) = 2
  /\ DeclPositions(DeclsAt(Len(generated.code.stmts)), "method") = {2}
  /\ DeclPositions(DeclsAt(Len(generated.code.stmts)), "getter") = {3, 4}

(***************************************************************************)
(* C25                                                                     *)
(***************************************************************************)
NoError == <<"NoError">>

\* the error of the first failing step when a group parses its own URL
\* before it visits its children, and an endpoint parses its URL before it
\* merges $params and then $data; NoError if no step fails
RECURSIVE UrlFirstError(_, _)
UrlFirstError(apisets, i) ==
  IF i > Len(apisets)
  THEN NoError
  ELSE LET node == apisets[i][2]
           parsed == parse_expr(node.url)
           here ==
             IF parsed.kind = "err"
             THEN parsed.err
             ELSE IF node.kind = "APISet"
                  THEN UrlFirstError(node.apisets, 1)
                  ELSE LET merged == Merge(BoundVars(parsed.params),
                                           node.params \o node.data, 1)
                       IN
                       IF merged.kind = "err" THEN merged.err ELSE NoError
       IN
       IF here # NoError THEN here ELSE UrlFirstError(apisets, i + 1)

\* every endpoint of the schema has a $method that from_str knows
MethodsKnown ==
  \A e \in EndpointsBelow(source.apisets) : from_str(e.method) # "panic"

\* C25: transform visits the root URL, then the children in insertion
\* order, a group's URL before its children and an endpoint's URL before
\* its $params and $data; a failing transform returns the error of the
\* first failing step in this order, without IR, and succeeds if no step
\* fails.
C25_FirstErrorUrlFirst ==
  (Transformed /\ MethodsKnown) =>
    LET root == IF source.url = None THEN NoError
                ELSE IF parse_expr(source.url[2]).kind = "err"
                     THEN parse_expr(source.url[2]).err
                     ELSE NoError
        first == IF root # NoError THEN root ELSE UrlFirstError(source.apisets, 1)
    IN
    IF first = NoError
    THEN transformed.kind = "ok"
    ELSE transformed = Err(first)

(***************************************************************************)
(* C26                                                                     *)
(***************************************************************************)
\* the first index from `from` on of a character of the set, Len(s) + 1 if
\* there is none
FirstOf(s, from, chars) ==
  Min({i \in from..Len(s) : s[i] \in chars} \cup {Len(s) + 1})

\* the index of the ':' that ends a non-empty name read from position pos
TypeColon(s, pos) == FirstOf(s, pos + 1, {":", ">"})

\* parse_param(s, pos) reads a non-empty name and then a ':'
ReachesParamType(s, pos) ==
  /\ TypeColon(s, pos) <= Len(s)
  /\ s[TypeColon(s, pos)] = ":"
  /\ TypeColon(s, pos) > pos + 1

ParamCalled == mode = "param" /\ subResult.kind # "none"

\* the value of a parameter whose type is s[c + 1 .. g - 1], closed at g
TypedParam(s, pos, c, g) ==
  LET name == SubSeq(s, pos + 1, c - 1) IN
  OkParam(Var(name), Param(name, Some(SubSeq(s, c + 1, g - 1))), g)

StepFrom(ctxs, c, is_super, name) ==
  IF c = 0
  THEN 0
  ELSE IF is_super
       THEN ctxs[c].parent
       ELSE IF ContainsKey(ctxs[c].children, name)
            THEN Get(ctxs[c].children, name)
            ELSE c

\* the node reached by the member chain `this.m1.m2...` evaluated on the
\* instance of node c: `_super` is the instance the constructor was given
RECURSIVE InterpretChain(_, _, _)
InterpretChain(ctxs, c, members) ==
  IF Len(members) = 0
  THEN c
  ELSE InterpretChain(ctxs,
                      StepFrom(ctxs, c, members[1] = Ident(UnderscoreSuper),
                               members[1]),
                      Tail(members))

\* the node reached by the lookup of the segments ms started at node c
RECURSIVE LookupNode(_, _, _)
LookupNode(ctxs, c, ms) ==
  IF Len(ms) = 0
  THEN c
  ELSE LookupNode(ctxs,
                  StepFrom(ctxs, c, ms[1] = Super,
                           IF ms[1] = Super THEN <<>> ELSE ms[1][2]),
                  Tail(ms))

\* the emitted chains of the references of url agree with the lookup from
\* own when they are evaluated on the instance of emitter
ChainsAgree(ctxs, url, emitted, emitter, own) ==
  \A pc \in RefPairs(url, emitted) :
    /\ Len(pc[1]) > 0
    /\ InterpretChain(ctxs, emitter, ChainMembers(pc[2]))
         = LookupNode(ctxs, own, pc[1])

\* the URL of every group is emitted in the constructor of its own class
GroupChainsAgree ==
  LET groups == PostOrderGroups(transformed.ir.apisets) IN
  \A i \in 1..Len(groups) :
    ChainsAgree(transformed.ctxs, groups[i].url,
                GroupClasses[i].constructor[2].stmts[2][2].expr,
                groups[i].context, groups[i].context)

\* the URL of every endpoint is emitted in a method of the class of the
\* node that holds the endpoint
EndpointChainsAgree ==
  \A nc \in NodeClasses :
    LET eps == EndpointChildren(nc[1]) IN
    \A i \in 1..Len(eps) :
      ChainsAgree(transformed.ctxs, eps[i][2].url,
                  Get(AxiosConfig(nc[2].methods[i]), Url),
                  nc[1].context, eps[i][2].context)

\* C27: for every endpoint and group and every Ref in its URL, the node
\* reached by the emitted member chain, `this` being the instance of the
\* class the expression is emitted in and `_super` its parent, is the node
\* the lookup reaches from the context of the IR node itself with one
\* parent link per Super segment.
C27_ChainAgreesWithLookup ==
  Generated => (GroupChainsAgree /\ EndpointChainsAgree)

(***************************************************************************)
(* C28                                                                     *)
(***************************************************************************)
\* the positions of the class statements named K
ClassesNamed(K) ==
  {i \in 2..Len(generated.code.stmts) : ClassAt(i).ident = Ident(K)}

\* C28: the class statements emitted by gen have pairwise distinct names,
\* and the name K of every getter `new K(this)` is the name of exactly one
\* class statement, also when groups under different parents have the same
\* name.
C28_ClassNamesDistinct ==
  Generated =>
    /\ \A i, j \in 2..Len(generated.code.stmts) :
         (ClassAt(i).ident = ClassAt(j).ident) => i = j
    /\ \A i \in 2..Len(generated.code.stmts) :
         \A K \in Instantiated(ClassAt(i)) : Cardinality(ClassesNamed(K)) = 1

(***************************************************************************)
(* C29                                                                     *)
(***************************************************************************)
\* the segments of the left-nested Concat that collect_exprs builds
RECURSIVE SegmentsOfExpr(_)
SegmentsOfExpr(e) ==
  IF e[1] = "Concat" THEN Append(SegmentsOfExpr(e[2]), e[3]) ELSE <<e>>

\* C29: in the segments of every successful parse_expr result every Lit
\* has a non-empty text and no two Lit segments are adjacent; the segments
\* are those pushed by the loop.
C29_LitsNonEmptyAndApart ==
  (Parsed /\ result.kind = "ok") =>
    LET segs == SegmentsOfExpr(result.expr) IN
    /\ segs = exprs
    /\ \A i \in 1..Len(segs) :
         segs[i][1] = "Lit" =>
           /\ Len(segs[i][2]) > 0
           /\ i < Len(segs) => segs[i + 1][1] # "Lit"

\* "abc${!super.def}<id:gg>": the three characters are one Lit, and no Lit
\* stands between the reference and the parameter or after the parameter
C29_Witness ==
  /\ Parsed
  /\ input = FixExpr
  /\ result.kind = "ok"
  /\ SegmentsOfExpr(result.expr)
       = <<Lit(<<"a", "b", "c">>), Ref(<<Super, Member(<<"d", "e", "f">>)>>),
           Var(<<"i", "d">>)>>

(***************************************************************************)
(* C30                                                                     *)
(***************************************************************************)
\* a position returned by a sub-parser entered at position entry
Advanced(r, entry) == r.kind = "ok" => (r.pos > entry /\ r.pos <= Len(input))

\* C30: every iteration of the loop of parse_expr that reads a character
\* leaves the scan position strictly greater and within the input, by more
\* than the one character read when it dispatched into parse_ref or
\* parse_param and went on; the iteration at the end of the input returns;
\* and parse_ref and parse_param return a position strictly greater than
\* the one they were entered with.  Hence at most one iteration per
\* character and one more.
C30_PositionAdvances ==
  [][/\ (InLoop /\ siter < Len(input)) =>
          /\ siter' > siter
          /\ siter' <= Len(input)
          /\ (input[siter + 1] \in {"$", "<"} /\ result'.kind = "none") =>
               siter' > siter + 1
     /\ (InLoop /\ siter >= Len(input)) => result'.kind # "none"
     /\ (mode = "ref") => Advanced(subResult', subPos')
     /\ (mode = "param") => Advanced(subResult', subPos')]_vars

\* "abc${!super.def}<id:gg>" after the dispatch into parse_ref: the scan
\* goes on behind the '}', with the literal and the reference pushed
C30_Witness ==
  /\ InLoop
  /\ input = FixExpr
  /\ siter = 16
  /\ Len(exprs) = 2

====
